---- MODULE Spec2Model ----
(***************************************************************************)
(* Integration Quest: the gameplay tools of server.py (create_character,   *)
(* examine, move, attack, defend, use_item, pickup, equip, rest, flee)     *)
(* over the GameState of models/world.py, with CombatSystem,               *)
(* ProgressionSystem, StatusEffectManager and DungeonGenerator as the      *)
(* operators the tools call.                                               *)
(*                                                                         *)
(* Floats of the source are modelled exactly as rationals: every float     *)
(* constant used (0.5, 0.75, 1.25, 0.02, 0.1, 0.2) is applied to an        *)
(* integer and truncated with int(), which is integer division here.       *)
(* Random draws (dice, critical hits, percentage rolls, shuffles, picks    *)
(* from the template tables) are nondeterministic choices.                 *)
(***************************************************************************)
EXTENDS Integers, Sequences, FiniteSets, TLC

VARIABLES
    has_game,           \* "default" \in game_states          (server.py:92)
    hero,               \* GameState.hero                     (models/hero.py)
    dungeon_map,        \* GameState.dungeon_map: id -> Room  (models/world.py)
    current_room_id,    \* GameState.current_room_id
    combat,             \* GameState.combat (present = FALSE models None)
    depth,              \* GameState.depth
    max_depth_reached,  \* GameState.max_depth_reached
    turn_count,         \* GameState.turn_count
    result,             \* what the last tool call returned to the caller
    save_files,         \* storage/saves: save id -> file content (server.py:1074)
    clock,              \* datetime.now(), in seconds         (server.py:1071)
    checkpoints,        \* history: the save id and GameState of every save
    players,            \* db.players: email -> player document (database.py:23)
    issued,             \* history: email -> the tokens generated for it
    player_session,     \* player_sessions["default"]         (server.py:95)
    cloud_saves,        \* db.game_sessions: email -> session (database.py:24)
    in_flight           \* the database calls begun and not yet returned

\* the save files of single-player mode, with the clock that names them
persistent == <<save_files, clock, checkpoints>>

\* the state of multiplayer mode
multiplayer == <<players, issued, player_session, cloud_saves, in_flight>>

vars == <<has_game, hero, dungeon_map, current_room_id, combat, depth,
          max_depth_reached, turn_count, result, persistent, multiplayer>>

game == <<hero, dungeon_map, current_room_id, combat, depth,
          max_depth_reached, turn_count>>

(***************************************************************************)
(* Generic helpers                                                         *)
(***************************************************************************)
Max(a, b) == IF a >= b THEN a ELSE b

Min(a, b) == IF a <= b THEN a ELSE b

Range(s) == {s[i] : i \in 1..Len(s)}

RECURSIVE SumSeq(_)
SumSeq(s) == IF s = <<>> THEN 0 ELSE Head(s) + SumSeq(Tail(s))

\* str.lower() on the letters the model's names use
Lower(c) ==
    CASE c = "B" -> "b"
      [] c = "A" -> "a"
      [] c = "T" -> "t"
      [] c = "P" -> "p"
      [] c = "I" -> "i"
      [] c = "O" -> "o"
      [] c = "H" -> "h"
      [] c = "D" -> "d"
      [] OTHER -> c

LowerStr(s) == [i \in 1..Len(s) |-> Lower(s[i])]

\* Python's `sub in s` on strings (sequences of characters)
Contains(sub, s) ==
    \E k \in 0..(Len(s) - Len(sub)) :
        \A i \in 1..Len(sub) : s[k + i] = sub[i]

\* `target.lower() in name.lower()`
NameMatches(target, name) == Contains(LowerStr(target), LowerStr(name))

(***************************************************************************)
(* config.py                                                               *)
(***************************************************************************)
BASE_HP == 100

BASE_MP == 50

BASE_STAT == 10

MAX_INVENTORY_SIZE == 20

\* REST_HP_RECOVERY = 0.5 and REST_MP_RECOVERY = 0.75, in percent
REST_HP_RECOVERY == 50

REST_MP_RECOVERY == 75

\* REST_ENCOUNTER_CHANCE = 0.20 and FLEE_BASE_CHANCE = 0.50, in percent
REST_ENCOUNTER_CHANCE == 20

FLEE_BASE_CHANCE == 50

\* DEFENSE_DAMAGE_REDUCTION = 0.50, in percent
DEFENSE_DAMAGE_REDUCTION == 50

Roles == {"warrior", "mage", "rogue", "cleric"}

CLASS_BONUSES(role) ==
    CASE role = "warrior" -> [str |-> 4, int |-> 0, dex |-> 0, con |-> 2, hp_mod |-> 20, mp_mod |-> -10]
      [] role = "mage"    -> [str |-> 0, int |-> 4, dex |-> 2, con |-> 0, hp_mod |-> -10, mp_mod |-> 30]
      [] role = "rogue"   -> [str |-> 2, int |-> 0, dex |-> 4, con |-> 0, hp_mod |-> 0, mp_mod |-> 0]
      [] role = "cleric"  -> [str |-> 0, int |-> 2, dex |-> 0, con |-> 4, hp_mod |-> 10, mp_mod |-> 15]

(***************************************************************************)
(* Template data (data/items.json, data/enemies.json, data/skills.json):   *)
(* read-only input tables.  The tables below are small instances of them.  *)
(* A dice notation "NdM+K" is the record [n, m, k].                        *)
(***************************************************************************)
Dice(n, m, k) == [n |-> n, m |-> m, k |-> k]

NoDice == Dice(0, 0, 0)

Item(id, name, kind, dice, protection, effect_type, effect_value) ==
    [id |-> id, name |-> name, kind |-> kind, damage_dice |-> dice,
     protection |-> protection, effect_type |-> effect_type,
     effect_value |-> effect_value]

\* None in an equipment slot
NoItem == Item("none", <<>>, "none", NoDice, 0, "none", 0)

HttpClient == Item("http_client", <<"h", "t", "t", "p">>, "weapon", Dice(1, 2, 0), 0, "none", 0)

BatchLoader == Item("batch_loader", <<"B", "a", "t", "c", "h">>, "weapon", Dice(1, 2, 2), 0, "none", 0)

BasicLogging == Item("basic_logging", <<"l", "o", "g">>, "armor", NoDice, 1, "none", 0)

TryCatchVest == Item("try_catch_vest", <<"T", "r", "y", "v", "e", "s", "t">>, "armor", NoDice, 3, "none", 0)

JobRetryPotion == Item("job_retry_potion", <<"P", "o", "t", "i", "o", "n">>, "consumable", NoDice, 0, "heal_hp", 200)

ApiCreditRefill == Item("api_credit_refill", <<"r", "e", "f", "i", "l", "l">>, "consumable", NoDice, 0, "heal_mp", 20)

GracefulExit == Item("graceful_exit", <<"e", "x", "i", "t">>, "consumable", NoDice, 0, "escape", 0)

RecipeFragment == Item("recipe_fragment", <<"f", "r", "a", "g">>, "consumable", NoDice, 0, "special", "fragment")

Weapons == <<HttpClient, BatchLoader>>

Armors == <<BasicLogging, TryCatchVest>>

Consumables == <<JobRetryPotion, ApiCreditRefill, GracefulExit, RecipeFragment>>

Enemy(name, hp, dice, armor, special, immune, xp, gold, tier) ==
    [name |-> name, hp |-> hp, max_hp |-> hp, damage_dice |-> dice,
     armor |-> armor, special_ability |-> special,
     immune_until_examined |-> immune, xp_reward |-> xp, gold_reward |-> gold,
     tier |-> tier, is_examined |-> FALSE]

UndocumentedApi == Enemy(<<"A", "P", "I">>, 1, Dice(1, 1, 399), 1, "none", TRUE, 150, 8, "common")

RateLimitGuardian == Enemy(<<"g", "u", "a", "r", "d">>, 6, Dice(1, 2, 0), 2, "rate_limited_inflict", FALSE, 50, 20, "uncommon")

LegacyDaemon == Enemy(<<"d", "a", "e", "m", "o", "n">>, 20, Dice(2, 3, 0), 3, "skip_turn_50", TRUE, 90, 40, "rare")

SapConfigBeast == Enemy(<<"b", "e", "a", "s", "t">>, 8, Dice(1, 3, 0), 4, "none", FALSE, 500, 100, "boss")

\* an enemy whose special ability is "double_attack"
ParallelWorker == Enemy(<<"w", "o", "r", "k", "e", "r">>, 10, Dice(1, 2, 0), 0, "double_attack", FALSE, 20, 5, "common")

enemy_data(tier) ==
    CASE tier = "common"   -> <<UndocumentedApi>>
      [] tier = "uncommon" -> <<RateLimitGuardian>>
      [] tier = "rare"     -> <<LegacyDaemon>>
      [] tier = "boss"     -> <<SapConfigBeast>>

\* damage_multiplier is kept in quarters: 4 is 1.0, 6 is 1.5
Skill(id, cost, mult4, ignore_armor) ==
    [id |-> id, cost |-> cost, mult4 |-> mult4, ignore_armor |-> ignore_armor]

skills_data ==
    << Skill("basic_attack", 0, 4, FALSE),
       Skill("bulk_upsert", 70, 6, TRUE) >>

\* skill ids a caller may pass; "no_such_skill" is in no table
SkillIds == {"basic_attack", "bulk_upsert", "no_such_skill"}

(***************************************************************************)
(* systems/dice.py                                                         *)
(***************************************************************************)
\* roll_dice: the totals "NdM+K" can produce, max(0, sum of rolls + K)
roll_dice(d) == {Max(0, s + d.k) : s \in d.n..(d.n * d.m)}

(***************************************************************************)
(* models/hero.py                                                          *)
(***************************************************************************)
\* Hero.calculate_max_uptime
calculate_max_uptime(h) ==
    BASE_HP + CLASS_BONUSES(h.role).hp_mod + h.error_resilience * 5
        + (h.recipe_fragments \div 3) * 5

\* Hero.calculate_max_api_credits
calculate_max_api_credits(h) ==
    BASE_MP + CLASS_BONUSES(h.role).mp_mod + h.formula_power * 3

\* Hero.get_armor_value: equipped armor plus 3 per "cached" effect
get_armor_value(h) ==
    (IF h.armor.kind = "none" THEN 0 ELSE h.armor.protection)
        + 3 * Cardinality({i \in 1..Len(h.status_effects) :
                              h.status_effects[i].effect_type = "cached"})

InventoryIndex(inv, item_id) ==
    {i \in 1..Len(inv) : inv[i].item.id = item_id}

FirstIndex(S) == CHOOSE i \in S : \A j \in S : i <= j

RemoveAt(s, i) == SubSeq(s, 1, i - 1) \o SubSeq(s, i + 1, Len(s))

\* an inventory that takes a new item however many entries it holds
add_to_inventory_uncapped(h, item, quantity) ==
    LET found == InventoryIndex(h.inventory, item.id) IN
    IF found # {}
    THEN [ok |-> TRUE,
          hero |-> [h EXCEPT !.inventory[FirstIndex(found)].quantity = @ + quantity]]
    ELSE [ok |-> TRUE,
          hero |-> [h EXCEPT !.inventory =
                       Append(@, [item |-> item, quantity |-> quantity])]]

\* Hero.add_to_inventory: [ok, hero]
add_to_inventory(h, item, quantity) ==
    LET found == InventoryIndex(h.inventory, item.id) IN
    IF found # {}
    THEN LET i == FirstIndex(found) IN
         [ok |-> TRUE,
          hero |-> [h EXCEPT !.inventory[i].quantity = @ + quantity]]
    ELSE IF Len(h.inventory) >= MAX_INVENTORY_SIZE
    THEN [ok |-> FALSE, hero |-> h]
    ELSE [ok |-> TRUE,
          hero |-> [h EXCEPT !.inventory =
                       Append(@, [item |-> item, quantity |-> quantity])]]

\* Hero.remove_from_inventory
remove_from_inventory(h, item_id, quantity) ==
    LET found == InventoryIndex(h.inventory, item_id) IN
    IF found = {} THEN h
    ELSE LET i == FirstIndex(found) IN
         IF h.inventory[i].quantity - quantity <= 0
         THEN [h EXCEPT !.inventory = RemoveAt(@, i)]
         ELSE [h EXCEPT !.inventory[i].quantity = @ - quantity]

(***************************************************************************)
(* systems/effects.py                                                      *)
(***************************************************************************)
\* StatusEffectManager.get_damage_modifier as the fraction num/den:
\* x1.25 per "buffered", x0.5 per "auth_expired"
RECURSIVE get_damage_modifier(_)
get_damage_modifier(effects) ==
    IF effects = <<>> THEN [num |-> 1, den |-> 1]
    ELSE LET rest_mod == get_damage_modifier(Tail(effects))
             t == Head(effects).effect_type
         IN  CASE t = "buffered" ->
                    [num |-> rest_mod.num * 5, den |-> rest_mod.den * 4]
               [] t = "auth_expired" ->
                    [num |-> rest_mod.num, den |-> rest_mod.den * 2]
               [] OTHER -> rest_mod

\* StatusEffectManager.get_mp_cost_modifier as the divisor: x0.5 per "throttled"
RECURSIVE get_mp_cost_divisor(_)
get_mp_cost_divisor(effects) ==
    IF effects = <<>> THEN 1
    ELSE (IF Head(effects).effect_type = "throttled" THEN 2 ELSE 1)
             * get_mp_cost_divisor(Tail(effects))

\* StatusEffectManager.remove_effect: drops the first effect of the type
remove_effect(h, effect_type) ==
    LET found == {i \in 1..Len(h.status_effects) :
                     h.status_effects[i].effect_type = effect_type}
    IN  IF found = {} THEN h
        ELSE [h EXCEPT !.status_effects = RemoveAt(@, FirstIndex(found))]

\* StatusEffectManager.apply_effect: the first effect of the type is
\* refreshed `if duration > effect.duration`, otherwise a new one is appended
apply_effect(h, effect_type, duration) ==
    LET found == {i \in 1..Len(h.status_effects) :
                     h.status_effects[i].effect_type = effect_type}
    IN  IF found # {}
        THEN LET i == FirstIndex(found) IN
             IF duration > h.status_effects[i].duration
             THEN [h EXCEPT !.status_effects[i].duration = duration]
             ELSE h
        ELSE [h EXCEPT !.status_effects =
                 Append(@, [effect_type |-> effect_type, duration |-> duration])]

\* process_turn_effects, first loop: every effect but the permanent ones
\* (duration -1) loses one turn
decrement_durations(effects) ==
    [i \in 1..Len(effects) |->
        IF effects[i].duration = -1 THEN effects[i]
        ELSE [effects[i] EXCEPT !.duration = @ - 1]]

\* process_turn_effects, first loop: the types of the effects that were
\* decremented to <= 0, in list order
RECURSIVE effects_to_remove(_)
effects_to_remove(effects) ==
    IF effects = <<>> THEN <<>>
    ELSE (IF Head(effects).duration # -1 /\ Head(effects).duration - 1 <= 0
          THEN <<Head(effects).effect_type>> ELSE <<>>)
             \o effects_to_remove(Tail(effects))

\* process_turn_effects, second loop: remove_effect for each expired type
RECURSIVE remove_effects(_, _)
remove_effects(h, types) ==
    IF types = <<>> THEN h
    ELSE remove_effects(remove_effect(h, Head(types)), Tail(types))

\* a tick that only counts down and removes nothing
process_turn_effects_keep_expired(h) ==
    [hero |-> [h EXCEPT !.status_effects = decrement_durations(@)],
     expired |-> effects_to_remove(h.status_effects)]

\* StatusEffectManager.process_turn_effects: [hero, expired]
process_turn_effects(h) ==
    [hero |-> remove_effects([h EXCEPT !.status_effects = decrement_durations(@)],
                             effects_to_remove(h.status_effects)),
     expired |-> effects_to_remove(h.status_effects)]

\* StatusEffectManager.can_act
can_act(h) ==
    \A i \in 1..Len(h.status_effects) :
        h.status_effects[i].effect_type # "rate_limited"

(***************************************************************************)
(* systems/progression.py                                                  *)
(***************************************************************************)
\* largest r in lo..hi with r * r <= n
RECURSIVE ISqrtIn(_, _, _)
ISqrtIn(n, lo, hi) ==
    IF lo >= hi THEN lo
    ELSE LET mid == (lo + hi + 1) \div 2 IN
         IF mid * mid <= n THEN ISqrtIn(n, mid, hi) ELSE ISqrtIn(n, lo, mid - 1)

\* ProgressionSystem.xp_required_for_level: int(100 * level ** 1.5)
xp_required_for_level(level) ==
    ISqrtIn(10000 * level * level * level, 0, 100 * level * level)

\* _apply_level_up: the role-based stat growth
stat_growth(h) ==
    CASE h.role = "warrior" ->
           [h EXCEPT !.throughput = @ + 2, !.error_resilience = @ + 1]
      [] h.role = "mage" ->
           [h EXCEPT !.formula_power = @ + 2, !.rate_agility = @ + 1]
      [] h.role = "rogue" ->
           [h EXCEPT !.rate_agility = @ + 2, !.throughput = @ + 1]
      [] h.role = "cleric" ->
           [h EXCEPT !.error_resilience = @ + 2, !.formula_power = @ + 1]

\* a level-up that recomputes the maxima and leaves the bars where they were
maxima_updated_only(grown) ==
    [grown EXCEPT !.max_uptime = calculate_max_uptime(grown),
                  !.max_api_credits = calculate_max_api_credits(grown)]

\* a level-up that fills the bars and keeps the maxima it found
bars_filled_to_old_maxima(grown) ==
    [grown EXCEPT !.uptime = grown.max_uptime, !.api_credits = grown.max_api_credits]

\* _apply_level_up: max_uptime and max_api_credits recomputed, then the
\* bars set to them
maxima_updated_and_restored(grown) ==
    LET new_max_hp == calculate_max_uptime(grown)
        new_max_mp == calculate_max_api_credits(grown)
    IN  [grown EXCEPT !.max_uptime = new_max_hp, !.max_api_credits = new_max_mp,
                      !.uptime = new_max_hp, !.api_credits = new_max_mp]

\* ProgressionSystem._apply_level_up
apply_level_up(h) == maxima_updated_and_restored(stat_growth(h))

RECURSIVE LevelUpLoop(_)
LevelUpLoop(h) ==
    IF h.xp >= xp_required_for_level(h.level + 1)
    THEN LevelUpLoop(apply_level_up(
             [h EXCEPT !.xp = @ - xp_required_for_level(h.level + 1),
                       !.level = @ + 1]))
    ELSE h

\* an add_experience whose level check is an `if`: one level at most per call
add_experience_once(h, xp) ==
    LET h1 == [h EXCEPT !.xp = @ + xp] IN
    IF h1.xp >= xp_required_for_level(h1.level + 1)
    THEN apply_level_up([h1 EXCEPT !.xp = @ - xp_required_for_level(h1.level + 1),
                                   !.level = @ + 1])
    ELSE h1

\* ProgressionSystem.add_experience
add_experience(h, xp) == LevelUpLoop([h EXCEPT !.xp = @ + xp])

\* ProgressionSystem.add_gold
add_gold(h, amount) == [h EXCEPT !.gold = @ + amount]

\* ProgressionSystem.add_recipe_fragment: [hero, bonus_applied]
add_recipe_fragment(h) ==
    LET h1 == [h EXCEPT !.recipe_fragments = @ + 1] IN
    IF h1.recipe_fragments % 3 = 0
    THEN [hero |-> [h1 EXCEPT !.max_uptime = calculate_max_uptime(h1)],
          bonus_applied |-> TRUE]
    ELSE [hero |-> h1, bonus_applied |-> FALSE]

(***************************************************************************)
(* systems/combat.py                                                       *)
(***************************************************************************)
NoCombat ==
    [present |-> FALSE, active |-> FALSE, hero_defending |-> FALSE,
     enemies_defeated |-> 0]

\* CombatSystem.initialize_combat.  turn_order, current_turn_index and
\* round_num are written here and read by no tool, so the record leaves
\* them out.
initialize_combat ==
    [present |-> TRUE, active |-> TRUE, hero_defending |-> FALSE,
     enemies_defeated |-> 0]

\* a damage that armor can reduce to nothing
calculate_damage_no_minimum(throughput, weapon, roll, target_armor, mult4, ignore_armor, is_crit) ==
    LET weapon_damage == IF weapon.kind = "none" THEN 1 ELSE roll
        with_skill == ((weapon_damage + (throughput \div 5)) * mult4) \div 4
        base_damage == IF is_crit THEN with_skill * 2 ELSE with_skill
    IN  IF ignore_armor THEN base_damage
        ELSE Max(0, base_damage - target_armor)

\* CombatSystem.calculate_damage; roll is the weapon's dice total and
\* is_crit the outcome of critical_hit_check()
calculate_damage(throughput, weapon, roll, target_armor, mult4, ignore_armor, is_crit) ==
    LET weapon_damage == IF weapon.kind = "none" THEN 1 ELSE roll
        with_bonus == weapon_damage + (throughput \div 5)
        with_skill == (with_bonus * mult4) \div 4
        base_damage == IF is_crit THEN with_skill * 2 ELSE with_skill
    IN  IF ignore_armor THEN base_damage
        ELSE Max(1, base_damage - target_armor)

\* an examine gate that is always open
is_immune_open(target) == FALSE

\* hero_attack: the examine gate `immune_until_examined and not is_examined`
is_immune(target) == target.immune_until_examined /\ ~target.is_examined

\* a hit without the clamp at 0
hp_after_hit_unclamped(target, damage) == target.hp - damage

\* hero_attack: `target.hp -= damage`, then `if target.hp <= 0: target.hp = 0`
hp_after_hit(target, damage) ==
    IF target.hp - damage <= 0 THEN 0 ELSE target.hp - damage

\* CombatSystem.hero_attack: [target, combat, result]
hero_attack(h, target, cs, mult4, ignore_armor, roll, is_crit) ==
    IF is_immune(target)
    THEN [target |-> target, combat |-> cs,
          result |-> [success |-> FALSE, damage_dealt |-> 0,
                      enemy_defeated |-> FALSE, xp_gained |-> 0,
                      gold_gained |-> 0]]
    ELSE LET raw == calculate_damage(h.throughput, h.weapon, roll, target.armor,
                                     mult4, ignore_armor, is_crit)
             mod == get_damage_modifier(h.status_effects)
             damage == (raw * mod.num) \div mod.den
         IN  IF target.hp - damage <= 0
             THEN [target |-> [target EXCEPT !.hp = hp_after_hit(target, damage)],
                   combat |-> [cs EXCEPT !.enemies_defeated = @ + 1],
                   result |-> [success |-> TRUE, damage_dealt |-> damage,
                               enemy_defeated |-> TRUE,
                               xp_gained |-> target.xp_reward,
                               gold_gained |-> target.gold_reward]]
             ELSE [target |-> [target EXCEPT !.hp = hp_after_hit(target, damage)],
                   combat |-> cs,
                   result |-> [success |-> TRUE, damage_dealt |-> damage,
                               enemy_defeated |-> FALSE, xp_gained |-> 0,
                               gold_gained |-> 0]]

\* CombatSystem.enemy_attack: [hero, damage_dealt, hero_defeated]
enemy_attack(enemy, h, cs, roll) ==
    LET reduced == IF cs.hero_defending
                   THEN (roll * (100 - DEFENSE_DAMAGE_REDUCTION)) \div 100
                   ELSE roll
        armor == get_armor_value(h)
        damage == IF armor > 0 THEN Max(1, reduced - armor) ELSE reduced
        left == h.uptime - damage
    IN  [hero |-> [h EXCEPT !.uptime = IF left <= 0 THEN 0 ELSE left],
         damage_dealt |-> damage,
         hero_defeated |-> left <= 0]

(***************************************************************************)
(* systems/generation.py.  Every random choice of the generator is an      *)
(* argument (a "draw"), so that the operators are the code's functions of  *)
(* the random source.                                                      *)
(***************************************************************************)
Directions == {"north", "south", "east", "west"}

\* Room ids: f"{room_type}_{depth}_{random.randint(1000, 9999)}"
RoomId(room_type, d, n) == <<room_type, d, n>>

StartId == <<"start", 0, 0>>

\* the placeholder exit target "generated"
GeneratedId == <<"generated", 0, 0>>

NoExits == [x \in {} |-> StartId]

Room(id, room_type, d) ==
    [id |-> id, room_type |-> room_type, exits |-> NoExits, items |-> <<>>,
     enemies |-> <<>>, is_cleared |-> FALSE, is_discovered |-> FALSE,
     depth |-> d]

\* _generate_enemies: tier and count range by depth
EnemyTiers(d) ==
    IF d <= 3 THEN {"common"}
    ELSE IF d <= 6 THEN {"uncommon"}
    ELSE IF d <= 9 THEN {"rare"}
    ELSE {"uncommon", "rare"}

EnemyCounts(d) ==
    IF d <= 3 THEN 1..2
    ELSE IF d <= 6 THEN 1..3
    ELSE IF d <= 9 THEN 1..2
    ELSE 2..3

\* the draws of one _generate_enemies call: a tier and one template index
\* per enemy
EnemyDraws(d) ==
    UNION { UNION { { [tier |-> t, picks |-> p] :
                        p \in [1..c -> 1..Len(enemy_data(t))] }
                    : c \in EnemyCounts(d) }
            : t \in EnemyTiers(d) }

\* hp scaling int(hp * (1.0 + depth * twentieths / 20))
ScaleHp(e, d, twentieths) ==
    LET hp == (e.hp * (20 + d * twentieths)) \div 20 IN
    [e EXCEPT !.hp = hp, !.max_hp = hp]

\* DungeonGenerator._generate_enemies (+10% hp per depth)
generate_enemies(d, room_type, draw) ==
    [i \in 1..Len(draw.picks) |->
        ScaleHp(enemy_data(draw.tier)[draw.picks[i]], d, 2)]

\* a boss room generated without its boss
generate_no_boss_enemy(d) == <<>>

\* DungeonGenerator._generate_boss_enemy (+5% hp per depth)
generate_boss_enemy(d) ==
    LET boss_pool == enemy_data("boss")
        wanted == (d \div 5) - 1
        boss_index == IF wanted >= Len(boss_pool) THEN Len(boss_pool) - 1 ELSE wanted
    IN  \* Python indexes from 0, and -1 is the last element
        << ScaleHp(boss_pool[IF boss_index < 0 THEN Len(boss_pool) ELSE boss_index + 1], d, 1) >>

\* DungeonGenerator._generate_loot: every slot yields an item of one of the
\* three tables or, when no candidate passes its drop-rate trial, nothing.
\* A loot draw is the sequence of the items the slots yielded.
LootItems == Range(Weapons) \cup Range(Armors) \cup Range(Consumables)

ValidLoot(loot, max_quantity) ==
    /\ Len(loot) <= max_quantity
    /\ Range(loot) \subseteq LootItems

\* DungeonGenerator.generate_room; forced is the room_type argument or "none".
\* draw = [room_type, n, enemies, loot]
generate_room(d, forced, draw) ==
    LET room_type == IF forced # "none" THEN forced
                     ELSE IF d % 5 = 0 THEN "boss" ELSE draw.room_type
        room == Room(RoomId(room_type, d, draw.n), room_type, d)
    IN  CASE room_type \in {"corridor", "chamber"} ->
               [room EXCEPT !.enemies = generate_enemies(d, room_type, draw.enemies),
                            !.items = draw.loot]
          [] room_type = "treasure" -> [room EXCEPT !.items = draw.loot]
          [] room_type = "trap" ->
               [room EXCEPT !.enemies = generate_enemies(d, room_type, draw.enemies)]
          [] room_type = "boss" -> [room EXCEPT !.enemies = generate_boss_enemy(d)]

\* what random.choices, randint and the loot trials can return for one room
ValidRoomDraw(d, draw) ==
    /\ draw.room_type \in {"corridor", "chamber", "treasure", "trap"}
    /\ draw.enemies \in EnemyDraws(d)
    /\ ValidLoot(draw.loot, IF draw.room_type = "treasure" THEN 4 ELSE 2)

\* a dict of rooms in insertion order: [ids, rooms]
RECURSIVE InsertRooms(_, _)
InsertRooms(level, new_rooms) ==
    IF new_rooms = <<>> THEN level
    ELSE LET room == Head(new_rooms)
             known == room.id \in Range(level.ids)
         IN  InsertRooms(
                 [ids |-> IF known THEN level.ids ELSE Append(level.ids, room.id),
                  rooms |-> [id \in DOMAIN level.rooms \cup {room.id} |->
                                IF id = room.id THEN room ELSE level.rooms[id]]],
                 Tail(new_rooms))

\* DungeonGenerator.generate_dungeon_level: [ids, rooms], the rooms chained
\* by a "north" exit from each to the next
generate_dungeon_level(d, room_count, draws) ==
    LET generated ==
            [i \in 1..room_count |->
                generate_room(d, IF i = room_count /\ d % 5 = 0 THEN "boss" ELSE "none",
                              draws[i])]
        level == InsertRooms([ids |-> <<>>, rooms |-> NoExits], generated)
        n == Len(level.ids)
        PositionOf(id) == CHOOSE i \in 1..n : level.ids[i] = id
    IN  [ids |-> level.ids,
         rooms |-> [id \in DOMAIN level.rooms |->
                       IF PositionOf(id) < n
                       THEN [level.rooms[id] EXCEPT
                                !.exits = ("north" :> level.ids[PositionOf(id) + 1])]
                       ELSE level.rooms[id]]]

\* DungeonGenerator.create_starting_room
create_starting_room(loot) ==
    [Room(StartId, "corridor", 1) EXCEPT
        !.exits = ("north" :> GeneratedId), !.items = loot]

(***************************************************************************)
(* server.py: game state helpers                                           *)
(***************************************************************************)
\* the values the state variables hold while game_states is empty
NoHero ==
    [role |-> "none", level |-> 0, xp |-> 0, uptime |-> 0, max_uptime |-> 0,
     api_credits |-> 0, max_api_credits |-> 0, throughput |-> 0,
     formula_power |-> 0, rate_agility |-> 0, error_resilience |-> 0,
     inventory |-> <<>>, weapon |-> NoItem, armor |-> NoItem,
     status_effects |-> <<>>, gold |-> 0, recipe_fragments |-> 0]

\* no save file, no registered player, nobody logged in
NoFiles == [id \in {} |-> <<>>]

NoSession == [is_authenticated |-> FALSE, email |-> <<>>, username |-> <<>>,
              current_run_score |-> 0]

\* the workers that call the database at the same time: server processes
\* sharing one MongoDB, each inside one tool call
MaxWorkers == 2

Workers == 1..MaxWorkers

\* a worker outside every database call
Idle ==
    [op |-> "idle", email |-> <<>>, username |-> <<>>, run_score |-> 0,
     best_run_score |-> 0]

NoCalls == [w \in Workers |-> Idle]

NothingStored ==
    /\ save_files = NoFiles
    /\ clock = 0
    /\ checkpoints = <<>>
    /\ players = NoFiles
    /\ issued = NoFiles
    /\ player_session = NoSession
    /\ cloud_saves = NoFiles
    /\ in_flight = NoCalls

\* GameState.get_current_room
CurrentRoom == dungeon_map[current_room_id]

\* an encounter that counts as running whenever a CombatState exists
is_in_combat_present == combat.present

\* GameState.is_in_combat
is_in_combat == combat.present /\ combat.active

AliveIndexes(room) == {i \in 1..Len(room.enemies) : room.enemies[i].hp > 0}

\* [e for e in room.enemies if e.hp > 0]
AliveEnemies(room) == SelectSeq(room.enemies, LAMBDA e : e.hp > 0)

\* what a tool returns: the tool, the error ("" when none), the game_over
\* flag of its state, and the success flag of its combat log
Result(tool, error) ==
    [tool |-> tool, error |-> error, game_over |-> FALSE, success |-> TRUE]

\* create_new_game_state: the hero
NewHero(role) ==
    LET bonuses == CLASS_BONUSES(role)
        throughput == BASE_STAT + bonuses.str
        formula_power == BASE_STAT + bonuses.int
        rate_agility == BASE_STAT + bonuses.dex
        error_resilience == BASE_STAT + bonuses.con
        max_uptime == BASE_HP + bonuses.hp_mod + error_resilience * 5
        max_api_credits == BASE_MP + bonuses.mp_mod + formula_power * 3
    IN  [role |-> role, level |-> 1, xp |-> 0,
         uptime |-> max_uptime, max_uptime |-> max_uptime,
         api_credits |-> max_api_credits, max_api_credits |-> max_api_credits,
         throughput |-> throughput, formula_power |-> formula_power,
         rate_agility |-> rate_agility, error_resilience |-> error_resilience,
         inventory |-> << [item |-> Consumables[1], quantity |-> 2] >>,
         weapon |-> Weapons[1], armor |-> Armors[1],
         status_effects |-> <<>>, gold |-> 0, recipe_fragments |-> 0]

\* create_new_game_state: the dungeon map, the start room linked to the
\* first room of a four-room level at depth 1
NewDungeon(draw) ==
    LET first_level == generate_dungeon_level(1, 4, draw.rooms)
        starting_room == [create_starting_room(draw.start_loot) EXCEPT
                             !.exits = ("north" :> first_level.ids[1])]
    IN  [id \in {StartId} \cup DOMAIN first_level.rooms |->
            IF id \in DOMAIN first_level.rooms THEN first_level.rooms[id]
            ELSE starting_room]

\* The rolls of one enemy turn: one damage roll per living enemy
RollChoices(alive) ==
    {r \in [1..Len(alive) -> UNION {roll_dice(alive[i].damage_dice) : i \in 1..Len(alive)}] :
        \A i \in 1..Len(alive) : r[i] \in roll_dice(alive[i].damage_dice)}

\* `"try" in hero.equipped.armor.name.lower()`
HasTryCatchVest(h) ==
    h.armor.kind # "none" /\ Contains(<<"t", "r", "y">>, LowerStr(h.armor.name))

\* The loop `for e in alive_enemies: enemy_attack(e, hero, combat)` of
\* attack, defend and flee, which returns at the first hero_defeated; in
\* defend (vest = TRUE) a Try/Catch Vest sets uptime to 1 and the loop
\* goes on.  [hero, damages, game_over]
RECURSIVE EnemyTurn(_, _, _, _, _)
EnemyTurn(alive, h, cs, rolls, vest) ==
    IF alive = <<>> THEN [hero |-> h, damages |-> <<>>, game_over |-> FALSE]
    ELSE LET hit == enemy_attack(Head(alive), h, cs, Head(rolls))
             survives == ~hit.hero_defeated \/ (vest /\ HasTryCatchVest(h))
             after == IF hit.hero_defeated THEN [hit.hero EXCEPT !.uptime = 1]
                      ELSE hit.hero
         IN  IF survives
             THEN LET later == EnemyTurn(Tail(alive), after, cs, Tail(rolls), vest)
                  IN  [later EXCEPT !.damages = <<hit.damage_dealt>> \o @]
             ELSE [hero |-> hit.hero, damages |-> <<hit.damage_dealt>>,
                   game_over |-> TRUE]

(***************************************************************************)
(* Bounds of the model and the arguments the callers pass                  *)
(***************************************************************************)
\* most enemies the dungeon map holds: a rest ambush is drawn only while
\* its enemies fit
MaxEnemies == 2

\* enemy names a caller may pass
TargetNames == { <<"a", "p", "i">> }

ExamineNames == { <<"a", "p", "i">> }

\* item names a caller may pass: no item the hero carries or the rooms hold
\* has "try" in its name
ItemNames == { <<"t", "r", "y">> }

MoveDirections == {"north"}

RolesPlayed == {"warrior"}

\* largest rate_agility the flee chance is compared over
MaxAgility == 30

\* what roll_percentage() returns to flee, in percent: values on both sides
\* of the hero's flee chance
FleeRolls == {0, 69, 70, 99}

EnemyDraw(picks) == [tier |-> "common", picks |-> picks]

RoomDraw(room_type, n, picks, loot) ==
    [room_type |-> room_type, n |-> n, enemies |-> EnemyDraw(picks), loot |-> loot]

\* the outcomes of the random source at create_character that the model
\* explores: the start room's loot and the four rooms of the first level
GameDraws ==
    { [start_loot |-> <<>>,
       rooms |-> << RoomDraw("trap", 1001, <<1>>, <<>>),
                    RoomDraw("treasure", 1002, <<1>>, <<>>),
                    RoomDraw("treasure", 1003, <<1>>, <<>>),
                    RoomDraw("treasure", 1004, <<1>>, <<>>) >>] }

ValidGameDraw(draw) ==
    /\ ValidLoot(draw.start_loot, 2)
    /\ Len(draw.rooms) = 4
    /\ \A i \in 1..4 : ValidRoomDraw(1, draw.rooms[i])

RECURSIVE CountEnemies(_)
CountEnemies(ids) ==
    IF ids = {} THEN 0
    ELSE LET id == CHOOSE x \in ids : TRUE IN
         Len(dungeon_map[id].enemies) + CountEnemies(ids \ {id})

TotalEnemies == CountEnemies(DOMAIN dungeon_map)

(***************************************************************************)
(* server.py: the tools.  One action per tool; a tool that returns an      *)
(* error records it in result.error.                                       *)
(***************************************************************************)
Init ==
    /\ has_game = FALSE
    /\ hero = NoHero
    /\ dungeon_map = NoExits
    /\ current_room_id = StartId
    /\ combat = NoCombat
    /\ depth = 1
    /\ max_depth_reached = 1
    /\ turn_count = 0
    /\ result = Result("none", "")
    /\ NothingStored

\* create_character -> create_new_game_state
CreateCharacter(role, draw) ==
    /\ ValidGameDraw(draw)
    /\ has_game' = TRUE
    /\ hero' = NewHero(role)
    /\ dungeon_map' = NewDungeon(draw)
    /\ current_room_id' = StartId
    /\ combat' = NoCombat
    /\ depth' = 1
    /\ max_depth_reached' = 1
    /\ turn_count' = 0
    /\ result' = Result("create_character", "")

Fail(tool, error) ==
    /\ result' = Result(tool, error)
    /\ UNCHANGED <<has_game, game>>

\* examine
Examine(target) ==
    IF ~has_game THEN Fail("examine", "no_game")
    ELSE LET room == CurrentRoom
             found == {i \in AliveIndexes(room) :
                          NameMatches(target, room.enemies[i].name)}
             items == {i \in 1..Len(room.items) :
                          NameMatches(target, room.items[i].name)}
         IN  IF found # {}
             THEN /\ dungeon_map' =
                        [dungeon_map EXCEPT
                            ![current_room_id].enemies[FirstIndex(found)].is_examined = TRUE]
                  /\ result' = Result("examine", "")
                  /\ UNCHANGED <<has_game, hero, current_room_id, combat, depth,
                                 max_depth_reached, turn_count>>
             ELSE IF items # {}
             THEN /\ result' = Result("examine", "")
                  /\ UNCHANGED <<has_game, game>>
             ELSE Fail("examine", "invalid_target")

\* move; a level generated on the way draws its rooms from the random source
Move(direction, draws) ==
    IF ~has_game THEN Fail("move", "no_game")
    ELSE LET room == CurrentRoom IN
         IF is_in_combat THEN Fail("move", "in_combat")
         ELSE IF direction \notin DOMAIN room.exits
         THEN Fail("move", "invalid_direction")
         ELSE IF AliveIndexes(room) # {} /\ ~room.is_cleared
         THEN Fail("move", "path_blocked")
         ELSE LET target == room.exits[direction]
                  generate == target = GeneratedId \/ target \notin DOMAIN dungeon_map
                  new_depth == depth + 1
                  new_rooms == generate_dungeon_level(new_depth, 4, draws)
                  next_room_id == IF generate THEN new_rooms.ids[1] ELSE target
                  map1 == IF generate
                          THEN [id \in DOMAIN dungeon_map \cup DOMAIN new_rooms.rooms |->
                                   IF id \in DOMAIN new_rooms.rooms THEN new_rooms.rooms[id]
                                   ELSE IF id = current_room_id
                                   THEN [dungeon_map[id] EXCEPT
                                            !.exits = [d \in DOMAIN @ |->
                                                IF d = direction THEN next_room_id ELSE @[d]]]
                                   ELSE dungeon_map[id]]
                          ELSE dungeon_map
              IN  /\ generate => \A i \in 1..4 : ValidRoomDraw(new_depth, draws[i])
                  /\ dungeon_map' = [map1 EXCEPT ![next_room_id].is_discovered = TRUE]
                  /\ depth' = IF generate THEN new_depth ELSE depth
                  /\ max_depth_reached' =
                        IF generate /\ new_depth > max_depth_reached
                        THEN new_depth ELSE max_depth_reached
                  /\ current_room_id' = next_room_id
                  /\ turn_count' = turn_count + 1
                  /\ result' = Result("move", "")
                  /\ UNCHANGED <<has_game, hero, combat>>

SkillInfo(skill) ==
    {i \in 1..Len(skills_data) : skills_data[i].id = skill}

WeaponRolls(h) ==
    IF h.weapon.kind = "none" THEN {0} ELSE roll_dice(h.weapon.damage_dice)

\* attack
Attack(target, skill) ==
    IF ~has_game THEN Fail("attack", "no_game")
    ELSE LET room == CurrentRoom
             found == {i \in AliveIndexes(room) :
                          NameMatches(target, room.enemies[i].name)}
         IN
         IF found = {} THEN Fail("attack", "invalid_target")
         ELSE LET e == FirstIndex(found)
                  \* combat is initialized before the skill is looked up
                  cs == IF is_in_combat THEN combat ELSE initialize_combat
                  known == SkillInfo(skill)
              IN
              IF known = {}
              THEN /\ combat' = cs
                   /\ result' = Result("attack", "unknown_skill")
                   /\ UNCHANGED <<has_game, hero, dungeon_map, current_room_id,
                                  depth, max_depth_reached, turn_count>>
              ELSE LET skill_info == skills_data[FirstIndex(known)]
                       mp_cost == skill_info.cost
                                      \div get_mp_cost_divisor(hero.status_effects)
                   IN
                   IF hero.api_credits < mp_cost
                   THEN /\ combat' = cs
                        /\ result' = Result("attack", "insufficient_credits")
                        /\ UNCHANGED <<has_game, hero, dungeon_map, current_room_id,
                                       depth, max_depth_reached, turn_count>>
                   ELSE \E roll \in WeaponRolls(hero), is_crit \in BOOLEAN :
                        LET paid == [hero EXCEPT !.api_credits = @ - mp_cost]
                            hit == hero_attack(paid, room.enemies[e], cs,
                                               skill_info.mult4,
                                               skill_info.ignore_armor, roll, is_crit)
                            room1 == [room EXCEPT !.enemies[e] = hit.target]
                            log == [Result("attack", "") EXCEPT
                                       !.success = hit.result.success]
                        IN
                        IF AliveIndexes(room1) = {}
                        THEN LET total_xp ==
                                     SumSeq([i \in 1..Len(room1.enemies) |->
                                                room1.enemies[i].xp_reward])
                                 total_gold ==
                                     SumSeq([i \in 1..Len(room1.enemies) |->
                                                room1.enemies[i].gold_reward])
                             IN  /\ dungeon_map' =
                                       [dungeon_map EXCEPT ![current_room_id] =
                                           [room1 EXCEPT !.is_cleared = TRUE]]
                                 /\ combat' = NoCombat
                                 /\ hero' = add_gold(add_experience(paid, total_xp),
                                                     total_gold)
                                 /\ result' = log
                                 /\ UNCHANGED <<has_game, current_room_id, depth,
                                                max_depth_reached, turn_count>>
                        ELSE \E rolls \in RollChoices(AliveEnemies(room1)) :
                             LET turn == EnemyTurn(AliveEnemies(room1), paid,
                                                   hit.combat, rolls, FALSE)
                             IN  /\ dungeon_map' =
                                       [dungeon_map EXCEPT ![current_room_id] = room1]
                                 /\ combat' = hit.combat
                                 /\ hero' = turn.hero
                                 /\ result' = [log EXCEPT !.game_over = turn.game_over]
                                 /\ UNCHANGED <<has_game, current_room_id, depth,
                                                max_depth_reached, turn_count>>

\* defend
Defend ==
    IF ~has_game THEN Fail("defend", "no_game")
    ELSE IF ~is_in_combat THEN Fail("defend", "not_in_combat")
    ELSE LET cs == [combat EXCEPT !.hero_defending = TRUE]
             alive == AliveEnemies(CurrentRoom)
         IN  \E rolls \in RollChoices(alive) :
             LET turn == EnemyTurn(alive, hero, cs, rolls, TRUE) IN
             /\ hero' = turn.hero
             \* the early return on game over skips the reset of the flag
             /\ combat' = IF turn.game_over THEN cs
                          ELSE [cs EXCEPT !.hero_defending = FALSE]
             /\ result' = [Result("defend", "") EXCEPT !.game_over = turn.game_over]
             /\ UNCHANGED <<has_game, dungeon_map, current_room_id, depth,
                            max_depth_reached, turn_count>>

\* flee_chance = FLEE_BASE_CHANCE + (hero.rate_agility * 0.02), in percent
flee_chance(h) == FLEE_BASE_CHANCE + h.rate_agility * 2

\* a successful flee that leaves the encounter active
FledStillActive(cs) == cs

\* flee, on success: `game_state.combat.active = False`
Fled(cs) == [cs EXCEPT !.active = FALSE]

\* flee; roll is what roll_percentage() returned, in percent
Flee(roll) ==
    IF ~has_game THEN Fail("flee", "no_game")
    ELSE IF ~is_in_combat THEN Fail("flee", "not_in_combat")
    ELSE IF roll < flee_chance(hero)
         THEN /\ combat' = Fled(combat)
              /\ result' = Result("flee", "")
              /\ UNCHANGED <<has_game, hero, dungeon_map, current_room_id,
                             depth, max_depth_reached, turn_count>>
         ELSE LET alive == AliveEnemies(CurrentRoom) IN
              \E rolls \in RollChoices(alive) :
              LET turn == EnemyTurn(alive, hero, combat, rolls, FALSE) IN
              /\ hero' = turn.hero
              /\ result' = [Result("flee", "") EXCEPT
                               !.success = FALSE,
                               !.game_over = turn.game_over]
              /\ UNCHANGED <<has_game, dungeon_map, current_room_id, combat,
                             depth, max_depth_reached, turn_count>>

\* an escape consumable that leaves the encounter active
EscapedStillActive(cs) == cs

\* use_item, effect "escape" during combat: `game_state.combat.active = False`
Escaped(cs) == [cs EXCEPT !.active = FALSE]

\* use_item
UseItem(item) ==
    IF ~has_game THEN Fail("use_item", "no_game")
    ELSE LET found == {i \in 1..Len(hero.inventory) :
                          /\ NameMatches(item, hero.inventory[i].item.name)
                          /\ hero.inventory[i].item.kind = "consumable"}
         IN
         IF found = {} THEN Fail("use_item", "item_not_found")
         ELSE LET consumable == hero.inventory[FirstIndex(found)].item
                  t == consumable.effect_type
                  used ==
                      CASE t = "heal_hp" ->
                             [hero EXCEPT !.uptime =
                                 @ + Min(consumable.effect_value,
                                         hero.max_uptime - hero.uptime)]
                        [] t = "heal_mp" ->
                             [hero EXCEPT !.api_credits =
                                 @ + Min(consumable.effect_value,
                                         hero.max_api_credits - hero.api_credits)]
                        [] t = "cure_status" ->
                             remove_effect(hero, consumable.effect_value)
                        [] t = "special" ->
                             IF consumable.effect_value = "fragment"
                             THEN add_recipe_fragment(hero).hero ELSE hero
                        [] OTHER -> hero
              IN  /\ hero' = remove_from_inventory(used, consumable.id, 1)
                  /\ combat' = IF t = "escape" /\ is_in_combat
                               THEN Escaped(combat)
                               ELSE combat
                  /\ result' = Result("use_item", "")
                  /\ UNCHANGED <<has_game, dungeon_map, current_room_id, depth,
                                 max_depth_reached, turn_count>>

\* pickup
Pickup(item) ==
    IF ~has_game THEN Fail("pickup", "no_game")
    ELSE LET room == CurrentRoom
             found == {i \in 1..Len(room.items) :
                          NameMatches(item, room.items[i].name)}
         IN
         IF found = {} THEN Fail("pickup", "item_not_found")
         ELSE LET found_item == room.items[FirstIndex(found)]
                  added == add_to_inventory(hero, found_item, 1)
                  \* list.remove drops the first equal element
                  first_equal == FirstIndex({i \in 1..Len(room.items) :
                                                room.items[i] = found_item})
              IN  IF ~added.ok THEN Fail("pickup", "inventory_full")
                  ELSE /\ hero' = added.hero
                       /\ dungeon_map' =
                             [dungeon_map EXCEPT ![current_room_id].items =
                                 RemoveAt(@, first_equal)]
                       /\ result' = Result("pickup", "")
                       /\ UNCHANGED <<has_game, current_room_id, combat, depth,
                                      max_depth_reached, turn_count>>

\* equip
Equip(item) ==
    IF ~has_game THEN Fail("equip", "no_game")
    ELSE LET found == {i \in 1..Len(hero.inventory) :
                          NameMatches(item, hero.inventory[i].item.name)}
         IN
         IF found = {} THEN Fail("equip", "item_not_found")
         ELSE LET found_item == hero.inventory[FirstIndex(found)].item IN
              IF found_item.kind \notin {"weapon", "armor"}
              THEN Fail("equip", "not_equippable")
              ELSE /\ hero' = IF found_item.kind = "weapon"
                              THEN [hero EXCEPT !.weapon = found_item]
                              ELSE [hero EXCEPT !.armor = found_item]
                   /\ result' = Result("equip", "")
                   /\ UNCHANGED <<has_game, dungeon_map, current_room_id, combat,
                                  depth, max_depth_reached, turn_count>>

\* a rest that recovers the percentages of the maxima, not of what is missing
RestedOfMax(h) ==
    [h EXCEPT !.uptime = @ + (h.max_uptime * REST_HP_RECOVERY) \div 100,
              !.api_credits = @ + (h.max_api_credits * REST_MP_RECOVERY) \div 100]

\* the recovery of rest: hp by REST_HP_RECOVERY, credits by REST_MP_RECOVERY
Rested(h) ==
    LET hp_recovered == ((h.max_uptime - h.uptime) * REST_HP_RECOVERY) \div 100
        mp_recovered == ((h.max_api_credits - h.api_credits) * REST_MP_RECOVERY) \div 100
    IN  [h EXCEPT !.uptime = Min(h.max_uptime, h.uptime + hp_recovered),
                  !.api_credits = Min(h.max_api_credits, h.api_credits + mp_recovered)]

\* an ambush that leaves the room's is_cleared flag as it was
AmbushedStillCleared(room, new_enemy) ==
    [room EXCEPT !.enemies = @ \o new_enemy]

\* the ambush of rest: the new enemies join the room, which is no longer
\* cleared
Ambushed(room, new_enemy) ==
    [room EXCEPT !.enemies = @ \o new_enemy, !.is_cleared = FALSE]

\* rest; roll_percentage() < REST_ENCOUNTER_CHANCE is the ambush
Rest ==
    IF ~has_game THEN Fail("rest", "no_game")
    ELSE IF is_in_combat THEN Fail("rest", "in_combat")
    ELSE \E ambush \in BOOLEAN :
         /\ hero' = Rested(hero)
         /\ IF ambush
            THEN \E draw \in EnemyDraws(depth) :
                 /\ TotalEnemies + Len(draw.picks) <= MaxEnemies
                 /\ dungeon_map' =
                       [dungeon_map EXCEPT ![current_room_id] =
                           Ambushed(@, generate_enemies(depth, "corridor", draw))]
            ELSE UNCHANGED dungeon_map
         /\ result' = Result("rest", "")
         /\ UNCHANGED <<has_game, current_room_id, combat, depth,
                        max_depth_reached, turn_count>>

Next ==
    /\ UNCHANGED <<persistent, multiplayer>>
    /\ \/ \E role \in RolesPlayed, draw \in GameDraws : CreateCharacter(role, draw)
       \/ \E target \in ExamineNames : Examine(target)
       \/ \E direction \in MoveDirections, draw \in GameDraws : Move(direction, draw.rooms)
       \/ \E target \in TargetNames, skill \in SkillIds : Attack(target, skill)
       \/ Defend
       \/ \E roll \in FleeRolls : Flee(roll)
       \/ \E item \in ItemNames : UseItem(item)
       \/ \E item \in ItemNames : Pickup(item)
       \/ \E item \in ItemNames : Equip(item)
       \/ Rest

Spec == Init /\ [][Next]_vars

(***************************************************************************)
(* The same tools in a dungeon that holds items: an escape consumable in   *)
(* the start room, two enemies in the first room of the level and three    *)
(* recipe fragments in the treasure room behind it.  The callers name the  *)
(* items and attack with the basic skill.                                  *)
(***************************************************************************)
ItemGameDraws ==
    { [start_loot |-> <<GracefulExit>>,
       rooms |-> << RoomDraw("trap", 1001, <<1, 1>>, <<>>),
                    RoomDraw("treasure", 1002, <<1>>,
                             <<RecipeFragment, RecipeFragment, RecipeFragment>>),
                    RoomDraw("treasure", 1003, <<1>>, <<>>),
                    RoomDraw("treasure", 1004, <<1>>, <<>>) >>] }

\* item names a caller may pass: the escape consumable and the fragments
CarriedItemNames == { <<"e", "x", "i", "t">>, <<"f", "r", "a", "g">> }

NextItems ==
    /\ UNCHANGED <<persistent, multiplayer>>
    /\ \/ \E role \in RolesPlayed, draw \in ItemGameDraws : CreateCharacter(role, draw)
       \/ \E target \in ExamineNames : Examine(target)
       \/ \E direction \in MoveDirections, draw \in ItemGameDraws :
             Move(direction, draw.rooms)
       \/ \E target \in TargetNames : Attack(target, "basic_attack")
       \/ Defend
       \/ \E roll \in FleeRolls : Flee(roll)
       \/ \E item \in CarriedItemNames : UseItem(item)
       \/ \E item \in CarriedItemNames : Pickup(item)
       \/ \E item \in CarriedItemNames : Equip(item)
       \/ Rest

SpecItems == Init /\ [][NextItems]_vars

(***************************************************************************)
(* CombatSystem on its own: hero_attack and enemy_attack applied to one    *)
(* hero and one spawned enemy, as the unit tests call them.  The hero's    *)
(* armor slot and status effects, the enemy, its is_examined flag and the  *)
(* hero_defending flag are drawn at the start of the encounter.            *)
(***************************************************************************)
\* deepest level an encounter's enemy is spawned at
MaxDepth == 5

\* largest uptime the hero enters an encounter with
MaxUptime == 3

\* most defeats one encounter counts: a lethal hit and further lethal hits
MaxDefeats == 2

StatusEffect(effect_type) == [effect_type |-> effect_type, duration |-> 3]

EncounterEffects ==
    { <<>>, <<StatusEffect("auth_expired")>>, <<StatusEffect("buffered")>>,
      <<StatusEffect("cached")>> }

EncounterHeroes ==
    { [NewHero(role) EXCEPT !.uptime = u, !.armor = a, !.status_effects = e] :
        role \in RolesPlayed, u \in 1..MaxUptime,
        a \in {NoItem, BasicLogging}, e \in EncounterEffects }

\* one enemy as _generate_enemies or _generate_boss_enemy spawns it
EncounterEnemies ==
    UNION { { generate_enemies(d, "corridor", draw)[1] :
                draw \in {x \in EnemyDraws(d) : Len(x.picks) = 1} }
            \cup (IF d % 5 = 0 THEN {generate_boss_enemy(d)[1]} ELSE {})
            : d \in 1..MaxDepth }

EncounterResult(tool, success, damage_dealt, enemy_defeated, game_over) ==
    [tool |-> tool, error |-> "", game_over |-> game_over, success |-> success,
     damage_dealt |-> damage_dealt, enemy_defeated |-> enemy_defeated]

InitEncounter ==
    /\ has_game = TRUE
    /\ hero \in EncounterHeroes
    /\ \E e \in EncounterEnemies, examined \in BOOLEAN :
          dungeon_map =
              (StartId :> [create_starting_room(<<>>) EXCEPT
                              !.enemies = << [e EXCEPT !.is_examined = examined] >>])
    /\ current_room_id = StartId
    /\ \E defending \in BOOLEAN :
          combat = [initialize_combat EXCEPT !.hero_defending = defending]
    /\ depth = 1
    /\ max_depth_reached = 1
    /\ turn_count = 0
    /\ result = Result("none", "")
    /\ NothingStored

\* CombatSystem.hero_attack on the encounter's enemy
HeroAttack(skill_info, roll, is_crit) ==
    LET hit == hero_attack(hero, CurrentRoom.enemies[1], combat, skill_info.mult4,
                           skill_info.ignore_armor, roll, is_crit)
    IN  /\ combat.enemies_defeated < MaxDefeats
        /\ dungeon_map' = [dungeon_map EXCEPT ![current_room_id].enemies[1] = hit.target]
        /\ combat' = hit.combat
        /\ result' = EncounterResult("hero_attack", hit.result.success,
                                     hit.result.damage_dealt,
                                     hit.result.enemy_defeated, FALSE)
        /\ UNCHANGED <<has_game, hero, current_room_id, depth, max_depth_reached,
                       turn_count>>

\* CombatSystem.enemy_attack by the encounter's enemy while it lives
EnemyAttack(roll) ==
    LET hit == enemy_attack(CurrentRoom.enemies[1], hero, combat, roll)
    IN  /\ CurrentRoom.enemies[1].hp > 0
        /\ hero' = hit.hero
        /\ result' = EncounterResult("enemy_attack", TRUE, hit.damage_dealt,
                                     FALSE, hit.hero_defeated)
        /\ UNCHANGED <<has_game, dungeon_map, current_room_id, combat, depth,
                       max_depth_reached, turn_count>>

NextEncounter ==
    /\ UNCHANGED <<persistent, multiplayer>>
    /\ \/ \E i \in 1..Len(skills_data), roll \in WeaponRolls(hero), is_crit \in BOOLEAN :
             HeroAttack(skills_data[i], roll, is_crit)
       \/ \E roll \in roll_dice(CurrentRoom.enemies[1].damage_dice) : EnemyAttack(roll)

SpecEncounter == InitEncounter /\ [][NextEncounter]_vars

(***************************************************************************)
(* ProgressionSystem on its own: add_experience, add_gold and              *)
(* add_recipe_fragment applied to one hero, as the unit tests call them.   *)
(***************************************************************************)
\* highest level a hero is granted experience at
MaxLevel == 2

\* largest amount of gold, owned or owed, the hero is taken to
MaxGold == 50

\* most recipe fragments the hero collects
MaxFragments == 6

\* tests/conftest.py warrior_hero: a Hero built with the maxima given as
\* arguments, not derived from its stats
warrior_hero ==
    [NewHero("warrior") EXCEPT
        !.uptime = 120, !.max_uptime = 120,
        !.api_credits = 40, !.max_api_credits = 40,
        !.throughput = 14, !.formula_power = 10, !.rate_agility = 10,
        !.error_resilience = 12, !.inventory = <<>>]

\* tests/conftest.py damaged_hero: both bars at half of their maxima
damaged_hero(h) ==
    [h EXCEPT !.uptime = h.max_uptime \div 2,
              !.api_credits = h.max_api_credits \div 2]

ProgressionHeroes ==
    LET made == {NewHero(role) : role \in Roles} \cup {warrior_hero}
    IN  made \cup {damaged_hero(h) : h \in made}

\* the xp argument of add_experience: nothing, the first threshold, and a
\* grant worth several levels
XpGrants == {0, 282, 5000}

\* the amount argument of add_gold
GoldAmounts == {-50, 50}

\* what a ProgressionSystem call returns, with its argument
ProgressionResult(tool, amount, leveled_up, bonus_applied) ==
    [tool |-> tool, error |-> "", game_over |-> FALSE, success |-> TRUE,
     amount |-> amount, leveled_up |-> leveled_up, bonus_applied |-> bonus_applied]

InitProgression ==
    /\ has_game = TRUE
    /\ hero \in ProgressionHeroes
    /\ dungeon_map = (StartId :> create_starting_room(<<>>))
    /\ current_room_id = StartId
    /\ combat = NoCombat
    /\ depth = 1
    /\ max_depth_reached = 1
    /\ turn_count = 0
    /\ result = Result("none", "")
    /\ NothingStored

\* ProgressionSystem.add_experience(hero, xp)
AddExperience(xp) ==
    /\ hero.level <= MaxLevel
    /\ hero' = add_experience(hero, xp)
    /\ result' = ProgressionResult("add_experience", xp, hero'.level > hero.level, FALSE)
    /\ UNCHANGED <<has_game, dungeon_map, current_room_id, combat, depth,
                   max_depth_reached, turn_count>>

\* ProgressionSystem.add_gold(hero, amount)
AddGold(amount) ==
    /\ -MaxGold <= hero.gold + amount /\ hero.gold + amount <= MaxGold
    /\ hero' = add_gold(hero, amount)
    /\ result' = ProgressionResult("add_gold", amount, FALSE, FALSE)
    /\ UNCHANGED <<has_game, dungeon_map, current_room_id, combat, depth,
                   max_depth_reached, turn_count>>

\* ProgressionSystem.add_recipe_fragment(hero)
AddRecipeFragment ==
    LET added == add_recipe_fragment(hero) IN
    /\ hero.recipe_fragments < MaxFragments
    /\ hero' = added.hero
    /\ result' = ProgressionResult("add_recipe_fragment", 1, FALSE, added.bonus_applied)
    /\ UNCHANGED <<has_game, dungeon_map, current_room_id, combat, depth,
                   max_depth_reached, turn_count>>

NextProgression ==
    /\ UNCHANGED <<persistent, multiplayer>>
    /\ \/ \E xp \in XpGrants : AddExperience(xp)
       \/ \E amount \in GoldAmounts : AddGold(amount)
       \/ AddRecipeFragment

SpecProgression == InitProgression /\ [][NextProgression]_vars

(***************************************************************************)
(* The inventory on its own: the hero of tests/test_models.py              *)
(* test_hero_inventory_full, whose inventory is filled with distinct test  *)
(* potions, in a room that holds more potions.  add_to_inventory is called *)
(* as the test calls it, pickup and use_item as the tools.                 *)
(***************************************************************************)
\* inventory entries left free when the hero enters the room
FreeSlots == 1

\* most units of one item that add_to_inventory stacks
MaxQuantity == 2

DigitChars == <<"0", "1", "2", "3", "4", "5", "6", "7", "8", "9">>

\* str(i) of 0 <= i < 100, as characters
Str(i) ==
    IF i < 10 THEN <<DigitChars[i + 1]>>
    ELSE <<DigitChars[(i \div 10) + 1], DigitChars[(i % 10) + 1]>>

\* f"test_potion_{i}"
test_potion_ids ==
    <<"test_potion_0", "test_potion_1", "test_potion_2", "test_potion_3",
      "test_potion_4", "test_potion_5", "test_potion_6", "test_potion_7",
      "test_potion_8", "test_potion_9", "test_potion_10", "test_potion_11",
      "test_potion_12", "test_potion_13", "test_potion_14", "test_potion_15",
      "test_potion_16", "test_potion_17", "test_potion_18", "test_potion_19",
      "test_potion_20", "test_potion_21">>

\* Consumable(id=f"test_potion_{i}", name=f"Test Potion {i}", heal_hp 10)
unique_potion(i) ==
    Item(test_potion_ids[i + 1],
         <<"T", "e", "s", "t", " ", "P", "o", "t", "i", "o", "n", " ">> \o Str(i),
         "consumable", NoDice, 0, "heal_hp", 10)

\* Consumable(id="overflow_potion", name="Overflow Potion", heal_hp 10)
overflow_potion ==
    Item("overflow_potion",
         <<"O", "v", "e", "r", "f", "l", "o", "w", " ", "P", "o", "t", "i", "o", "n">>,
         "consumable", NoDice, 0, "heal_hp", 10)

\* `for i in range(n): hero.add_to_inventory(unique_potion)` from potion i on
RECURSIVE FillInventory(_, _, _)
FillInventory(h, i, n) ==
    IF i >= n THEN h
    ELSE FillInventory(add_to_inventory(h, unique_potion(i), 1).hero, i + 1, n)

\* the first potion not yet carried
FirstFree == MAX_INVENTORY_SIZE - FreeSlots

\* the items add_to_inventory is called with: one the hero carries, those
\* that fill the free entries, and the overflow potion
InventoryItems ==
    {unique_potion(0), overflow_potion}
        \cup {unique_potion(i) : i \in FirstFree..(MAX_INVENTORY_SIZE - 1)}

\* the names pickup and use_item are called with
InventoryItemNames ==
    { <<"O", "v", "e", "r", "f", "l", "o", "w">>,
      <<"p", "o", "t", "i", "o", "n", " ", "0">>,
      <<"P", "o", "t", "i", "o", "n", " ", "1", "9">> }

\* the room: the potion that takes the last entry, and the overflow potion
RoomWithPotions ==
    [create_starting_room(<<unique_potion(MAX_INVENTORY_SIZE - 1),
                            overflow_potion>>) EXCEPT !.exits = NoExits]

\* what add_to_inventory returns, with the id of the item it was given
InventoryResult(item, ok) ==
    [tool |-> "add_to_inventory", error |-> "", game_over |-> FALSE,
     success |-> ok, item |-> item.id]

InitInventory ==
    /\ has_game = TRUE
    /\ hero = FillInventory(warrior_hero, 0, FirstFree)
    /\ dungeon_map = (StartId :> RoomWithPotions)
    /\ current_room_id = StartId
    /\ combat = NoCombat
    /\ depth = 1
    /\ max_depth_reached = 1
    /\ turn_count = 0
    /\ result = Result("none", "")
    /\ NothingStored

\* hero.add_to_inventory(item)
AddToInventory(item) ==
    LET added == add_to_inventory(hero, item, 1) IN
    /\ \A i \in InventoryIndex(hero.inventory, item.id) :
           hero.inventory[i].quantity < MaxQuantity
    /\ hero' = added.hero
    /\ result' = InventoryResult(item, added.ok)
    /\ UNCHANGED <<has_game, dungeon_map, current_room_id, combat, depth,
                   max_depth_reached, turn_count>>

NextInventory ==
    /\ UNCHANGED <<persistent, multiplayer>>
    /\ \/ \E item \in InventoryItems : AddToInventory(item)
       \/ \E item \in InventoryItemNames : Pickup(item)
       \/ \E item \in InventoryItemNames : UseItem(item)

SpecInventory == InitInventory /\ [][NextInventory]_vars

(***************************************************************************)
(* StatusEffectManager on its own: apply_effect and process_turn_effects   *)
(* applied to one hero.                                                    *)
(***************************************************************************)
\* longest finite duration an effect is applied with
MaxDuration == 3

\* the effect_type argument of apply_effect
EffectTypes == {"rate_limited", "buffered"}

\* the duration argument of apply_effect: permanent (-1) or a number of turns
EffectDurations == {-1} \cup 1..MaxDuration

\* what a StatusEffectManager call leaves behind: its arguments and the
\* types it reported as worn off
EffectResult(tool, effect_type, duration, expired) ==
    [tool |-> tool, error |-> "", game_over |-> FALSE, success |-> TRUE,
     effect_type |-> effect_type, duration |-> duration, expired |-> expired]

InitEffects ==
    /\ has_game = TRUE
    /\ hero = warrior_hero
    /\ dungeon_map = (StartId :> create_starting_room(<<>>))
    /\ current_room_id = StartId
    /\ combat = NoCombat
    /\ depth = 1
    /\ max_depth_reached = 1
    /\ turn_count = 0
    /\ result = Result("none", "")
    /\ NothingStored

\* StatusEffectManager.apply_effect(hero, effect_type, duration, description)
ApplyEffect(effect_type, duration) ==
    /\ hero' = apply_effect(hero, effect_type, duration)
    /\ result' = EffectResult("apply_effect", effect_type, duration, <<>>)
    /\ UNCHANGED <<has_game, dungeon_map, current_room_id, combat, depth,
                   max_depth_reached, turn_count>>

\* StatusEffectManager.process_turn_effects(hero)
ProcessTurnEffects ==
    LET ticked == process_turn_effects(hero) IN
    /\ hero' = ticked.hero
    /\ result' = EffectResult("process_turn_effects", "none", 0, ticked.expired)
    /\ UNCHANGED <<has_game, dungeon_map, current_room_id, combat, depth,
                   max_depth_reached, turn_count>>

NextEffects ==
    /\ UNCHANGED <<persistent, multiplayer>>
    /\ \/ \E effect_type \in EffectTypes, duration \in EffectDurations :
             ApplyEffect(effect_type, duration)
       \/ ProcessTurnEffects

SpecEffects == InitEffects /\ [][NextEffects]_vars

(***************************************************************************)
(* The combat tools against an enemy with a special ability, called by a   *)
(* hero who may carry the rate_limited effect: attack, defend, flee and    *)
(* use_item in the room of one double_attack enemy.                        *)
(***************************************************************************)
\* the hero of create_new_game_state, worn down to MaxUptime, carrying one
\* API Credit Refill
worn_hero ==
    [NewHero("warrior") EXCEPT
        !.uptime = MaxUptime,
        !.inventory = << [item |-> ApiCreditRefill, quantity |-> 1] >>]

\* the hero as it is, or after apply_effect(hero, "rate_limited", duration)
AbilityHeroes ==
    {worn_hero}
        \cup {apply_effect(worn_hero, "rate_limited", d) : d \in EffectDurations}

\* names of the enemy and of the carried item, as a caller passes them
AbilityTargetNames == { <<"w", "o", "r", "k", "e", "r">> }

AbilityItemNames == { <<"r", "e", "f", "i", "l", "l">> }

InitAbilities ==
    /\ has_game = TRUE
    /\ hero \in AbilityHeroes
    /\ dungeon_map =
          (StartId :> [create_starting_room(<<>>) EXCEPT
                          !.enemies = <<ParallelWorker>>, !.exits = NoExits])
    /\ current_room_id = StartId
    /\ combat = NoCombat
    /\ depth = 1
    /\ max_depth_reached = 1
    /\ turn_count = 0
    /\ result = Result("none", "")
    /\ NothingStored

NextAbilities ==
    /\ UNCHANGED <<persistent, multiplayer>>
    /\ \/ \E target \in AbilityTargetNames : Attack(target, "basic_attack")
       \/ Defend
       \/ \E roll \in FleeRolls : Flee(roll)
       \/ \E item \in AbilityItemNames : UseItem(item)

SpecAbilities == InitAbilities /\ [][NextAbilities]_vars

(***************************************************************************)
(* DungeonGenerator on its own: create_starting_room and                   *)
(* generate_dungeon_level called with a depth, a room count and the        *)
(* outcomes of the random source.                                          *)
(***************************************************************************)
\* most rooms a level is generated with
MaxRooms == 3

\* the depth argument: the first level, the level before the first boss
\* level, and the first two boss levels
GenerationDepths == {1, 4, 5, 10}

\* what random.choices returns for the room type
DrawnRoomTypes == {"corridor", "treasure"}

\* what random.randint(1000, 9999) returns for the room id
DrawnRoomNumbers == {1000, 1001}

\* one enemy draw of a depth, with the fewest enemies
FewestEnemyDraw(d) ==
    CHOOSE x \in EnemyDraws(d) : \A y \in EnemyDraws(d) : Len(x.picks) <= Len(y.picks)

\* the outcomes of the random source for one room
GenerationDraws(d) ==
    [room_type : DrawnRoomTypes, n : DrawnRoomNumbers,
     enemies : {FewestEnemyDraw(d)}, loot : {<<>>}]

\* what a DungeonGenerator call returns: its arguments and, for a level, the
\* room ids in the order of the returned dict
GenerationResult(tool, d, room_count, room_ids) ==
    [tool |-> tool, error |-> "", game_over |-> FALSE, success |-> TRUE,
     depth |-> d, room_count |-> room_count, room_ids |-> room_ids]

\* DungeonGenerator.create_starting_room()
CreateStartingRoom ==
    /\ \E loot \in {<<>>, <<GracefulExit>>} :
          dungeon_map' = (StartId :> create_starting_room(loot))
    /\ result' = GenerationResult("create_starting_room", 1, 1, <<StartId>>)
    /\ UNCHANGED <<has_game, hero, current_room_id, combat, depth,
                   max_depth_reached, turn_count>>

\* DungeonGenerator.generate_dungeon_level(depth, room_count)
GenerateDungeonLevel(d, room_count, draws) ==
    LET level == generate_dungeon_level(d, room_count, draws) IN
    /\ \A i \in 1..room_count : ValidRoomDraw(d, draws[i])
    /\ dungeon_map' = level.rooms
    /\ result' = GenerationResult("generate_dungeon_level", d, room_count, level.ids)
    /\ UNCHANGED <<has_game, hero, current_room_id, combat, depth,
                   max_depth_reached, turn_count>>

NextGeneration ==
    /\ UNCHANGED <<persistent, multiplayer>>
    /\ \/ CreateStartingRoom
       \/ \E d \in GenerationDepths, room_count \in 1..MaxRooms :
             \E draws \in [1..room_count -> GenerationDraws(d)] :
                 GenerateDungeonLevel(d, room_count, draws)

SpecGeneration == Init /\ [][NextGeneration]_vars

(***************************************************************************)
(* save_game and load_game.  A save file holds json.dump of                *)
(* GameState.model_dump(); load_game rebuilds the GameState from the       *)
(* parsed dict.  A dumped item is the dict of its class's fields, and      *)
(* validation picks the class of Weapon | Armor | Consumable whose         *)
(* required fields the dict has.  A dumped combat is None or the dict of   *)
(* the CombatState.                                                        *)
(***************************************************************************)
\* the GameState of game_states["default"]
game_state ==
    [hero |-> hero, dungeon_map |-> dungeon_map,
     current_room_id |-> current_room_id, combat |-> combat,
     depth |-> depth, max_depth_reached |-> max_depth_reached,
     turn_count |-> turn_count]

\* None in a dumped dict
Null == [null |-> TRUE]

\* Weapon / Armor / Consumable .model_dump()
dump_item(item) ==
    CASE item.kind = "weapon" ->
             [id |-> item.id, name |-> item.name,
              damage_dice |-> item.damage_dice]
      [] item.kind = "armor" ->
             [id |-> item.id, name |-> item.name,
              protection |-> item.protection]
      [] item.kind = "consumable" ->
             [id |-> item.id, name |-> item.name,
              effect_type |-> item.effect_type,
              effect_value |-> item.effect_value]
      [] OTHER -> Null

\* validation of a dict against Weapon | Armor | Consumable (or None)
parse_item(d) ==
    IF "damage_dice" \in DOMAIN d
    THEN Item(d.id, d.name, "weapon", d.damage_dice, 0, "none", 0)
    ELSE IF "protection" \in DOMAIN d
    THEN Item(d.id, d.name, "armor", NoDice, d.protection, "none", 0)
    ELSE IF "effect_type" \in DOMAIN d
    THEN Item(d.id, d.name, "consumable", NoDice, 0, d.effect_type,
              d.effect_value)
    ELSE NoItem

dump_hero(h) ==
    [h EXCEPT !.inventory = [i \in 1..Len(h.inventory) |->
                                [item |-> dump_item(h.inventory[i].item),
                                 quantity |-> h.inventory[i].quantity]],
              !.weapon = dump_item(h.weapon),
              !.armor = dump_item(h.armor)]

parse_hero(d) ==
    [d EXCEPT !.inventory = [i \in 1..Len(d.inventory) |->
                                [item |-> parse_item(d.inventory[i].item),
                                 quantity |-> d.inventory[i].quantity]],
              !.weapon = parse_item(d.weapon),
              !.armor = parse_item(d.armor)]

dump_room(room) ==
    [room EXCEPT !.items = [i \in 1..Len(room.items) |->
                               dump_item(room.items[i])]]

parse_room(d) ==
    [d EXCEPT !.items = [i \in 1..Len(d.items) |-> parse_item(d.items[i])]]

dump_combat(cs) ==
    IF cs.present
    THEN [active |-> cs.active, hero_defending |-> cs.hero_defending,
          enemies_defeated |-> cs.enemies_defeated]
    ELSE Null

parse_combat(d) ==
    IF "null" \in DOMAIN d THEN NoCombat
    ELSE [present |-> TRUE, active |-> d.active,
          hero_defending |-> d.hero_defending,
          enemies_defeated |-> d.enemies_defeated]

\* GameState.model_dump()
model_dump(gs) ==
    [gs EXCEPT !.hero = dump_hero(gs.hero),
               !.dungeon_map = [id \in DOMAIN gs.dungeon_map |->
                                   dump_room(gs.dungeon_map[id])],
               !.combat = dump_combat(gs.combat)]

\* GameState(**save_data)
parse_game_state(d) ==
    [d EXCEPT !.hero = parse_hero(d.hero),
              !.dungeon_map = [id \in DOMAIN d.dungeon_map |->
                                  parse_room(d.dungeon_map[id])],
              !.combat = parse_combat(d.combat)]

\* a save file json.load parses, and one it does not
SaveFile(data) == [parseable |-> TRUE, data |-> data]

UnparseableFile == [parseable |-> FALSE, data |-> Null]

\* f"save_{datetime.now().strftime('%Y%m%d_%H%M%S')}": the second it is
save_id_at(second) == <<"save", second>>

\* load_game called without a save id
NoSaveId == <<>>

\* what save_game and load_game return; raised: the call ended in an
\* exception instead of a returned dict
SaveResult(tool, error, save_id, raised) ==
    [tool |-> tool, error |-> error, game_over |-> FALSE, success |-> TRUE,
     save_id |-> save_id, raised |-> raised]

\* load_game's error returns
LoadFail(error, save_id) ==
    /\ result' = SaveResult("load_game", error, save_id, FALSE)
    /\ UNCHANGED <<has_game, game>>

\* game_states["default"] = game_state
RestoreGameState(gs) ==
    /\ has_game' = TRUE
    /\ hero' = gs.hero
    /\ dungeon_map' = gs.dungeon_map
    /\ current_room_id' = gs.current_room_id
    /\ combat' = gs.combat
    /\ depth' = gs.depth
    /\ max_depth_reached' = gs.max_depth_reached
    /\ turn_count' = gs.turn_count

\* save_game
SaveGame(multiplayer_mode) ==
    IF ~has_game
    THEN /\ Fail("save_game", "no_game")
         /\ UNCHANGED <<persistent, multiplayer>>
    ELSE IF multiplayer_mode
    THEN IF player_session.is_authenticated
         THEN /\ cloud_saves' =
                    (LowerStr(player_session.email) :>
                        [game_state |-> model_dump(game_state),
                         current_run_score |->
                             player_session.current_run_score])
                    @@ cloud_saves
              /\ result' = SaveResult("save_game", "", <<"cloud">>, FALSE)
              /\ UNCHANGED <<has_game, game, persistent, in_flight, players, issued,
                             player_session>>
         ELSE /\ Fail("save_game", "login_required")
              /\ UNCHANGED <<persistent, multiplayer>>
    ELSE LET save_id == save_id_at(clock)
         IN  /\ save_files' =
                    (save_id :> SaveFile(model_dump(game_state)))
                    @@ save_files
             /\ checkpoints' =
                    Append(checkpoints,
                           [save_id |-> save_id, game_state |-> game_state])
             /\ result' = SaveResult("save_game", "", save_id, FALSE)
             /\ UNCHANGED <<has_game, game, clock, multiplayer>>

\* load_game
LoadGame(multiplayer_mode, save_id) ==
    IF multiplayer_mode
    THEN IF player_session.is_authenticated
         THEN LET email == LowerStr(player_session.email)
              IN  IF email \notin DOMAIN cloud_saves
                  THEN /\ LoadFail("no_cloud_save", save_id)
                       /\ UNCHANGED <<persistent, multiplayer>>
                  ELSE /\ RestoreGameState(
                              parse_game_state(cloud_saves[email].game_state))
                       /\ player_session' =
                              [player_session EXCEPT !.current_run_score =
                                   cloud_saves[email].current_run_score]
                       /\ result' =
                              SaveResult("load_game", "", <<"cloud">>, FALSE)
                       /\ UNCHANGED <<persistent, in_flight, players, issued,
                                      cloud_saves>>
         ELSE /\ LoadFail("login_required", save_id)
              /\ UNCHANGED <<persistent, multiplayer>>
    ELSE IF save_id = NoSaveId
    THEN /\ LoadFail("no_save_id", save_id)
         /\ UNCHANGED <<persistent, multiplayer>>
    ELSE IF save_id \notin DOMAIN save_files
    THEN /\ LoadFail("not_found", save_id)
         /\ UNCHANGED <<persistent, multiplayer>>
    ELSE IF ~save_files[save_id].parseable
    THEN \* json.load / GameState(**save_data) raise, outside any try
         /\ result' = SaveResult("load_game", "exception", save_id, TRUE)
         /\ UNCHANGED <<has_game, game, persistent, multiplayer>>
    ELSE /\ RestoreGameState(parse_game_state(save_files[save_id].data))
         /\ result' = SaveResult("load_game", "", save_id, FALSE)
         /\ UNCHANGED <<persistent, multiplayer>>

(***************************************************************************)
(* The save tools in single-player mode: a game is created and played,     *)
(* saved and loaded, while the clock advances and the files of the save    *)
(* directory may be damaged outside the program.                           *)
(***************************************************************************)
\* the last second of the clock
MaxClock == 1

\* the most calls of save_game
MaxSaves == 2

SaveItemNames == { <<"p", "o", "t">> }

\* the ids load_game is called with: every second's save id, and none
SaveIds == {save_id_at(s) : s \in 0..MaxClock} \cup {NoSaveId}

\* a second passes
Tick ==
    /\ clock < MaxClock
    /\ clock' = clock + 1
    /\ UNCHANGED <<has_game, game, result, save_files, checkpoints,
                   multiplayer>>

\* a save file is truncated or overwritten outside the program
DamageSaveFile(save_id) ==
    /\ save_id \in DOMAIN save_files
    /\ save_files[save_id].parseable
    /\ save_files' = [save_files EXCEPT ![save_id] = UnparseableFile]
    /\ UNCHANGED <<has_game, game, result, clock, checkpoints, multiplayer>>

NextSaves ==
    \/ /\ UNCHANGED <<persistent, multiplayer>>
       /\ \/ \E role \in RolesPlayed, draw \in GameDraws :
                 CreateCharacter(role, draw)
          \/ \E item \in SaveItemNames : UseItem(item)
    \/ /\ Len(checkpoints) < MaxSaves
       /\ SaveGame(FALSE)
    \/ \E save_id \in SaveIds : LoadGame(FALSE, save_id)
    \/ Tick
    \/ \E save_id \in SaveIds : DamageSaveFile(save_id)

SpecSaves == Init /\ [][NextSaves]_vars

(***************************************************************************)
(* The account tools of multiplayer mode: register_player, login,          *)
(* refresh_token and logout over the players and game_sessions             *)
(* collections of DatabaseManager.  Documents are keyed by email.lower().  *)
(* generate_token() is secrets.token_hex(16), 128 random bits: it is       *)
(* modelled as a token that was never generated before, numbered in the    *)
(* order of generation.  Timestamps are left out.                          *)
(***************************************************************************)
MIN_USERNAME_LENGTH == 3

MAX_USERNAME_LENGTH == 20

\* the characters USERNAME_PATTERN = r'^[a-zA-Z0-9_]+$' admits
USERNAME_PATTERN ==
    {"a", "b", "c", "d", "e", "f", "g", "h", "i", "j", "k", "l", "m",
     "n", "o", "p", "q", "r", "s", "t", "u", "v", "w", "x", "y", "z",
     "A", "B", "C", "D", "E", "F", "G", "H", "I", "J", "K", "L", "M",
     "N", "O", "P", "Q", "R", "S", "T", "U", "V", "W", "X", "Y", "Z",
     "0", "1", "2", "3", "4", "5", "6", "7", "8", "9", "_"}

validate_username(username) ==
    /\ Len(username) >= MIN_USERNAME_LENGTH
    /\ Len(username) <= MAX_USERNAME_LENGTH
    /\ \A i \in 1..Len(username) : username[i] \in USERNAME_PATTERN

\* every token generated so far
TokensIssued == UNION {Range(issued[e]) : e \in DOMAIN issued}

generate_token == Cardinality(TokensIssued) + 1

\* DatabaseManager.get_player: the key a player is looked up by
player_key(email) == LowerStr(email)

\* DatabaseManager.get_player(email) is not None
player_exists(email) == player_key(email) \in DOMAIN players

\* DatabaseManager.get_player_by_username(username) is not None
username_taken(username) ==
    \E e \in DOMAIN players : players[e].username = username

\* the unique indexes of the players collection, on _id and on username:
\* insert_one raises DuplicateKeyError
duplicate_key(email, username) ==
    player_exists(email) \/ username_taken(username)

\* an insert into a collection without unique indexes
create_player_unchecked(email, username, token) ==
    (player_key(email) :>
        [username |-> username, token |-> token, total_score |-> 0,
         best_run_score |-> 0])
    @@ players

\* DatabaseManager.create_player: the collection after insert_one, which
\* inserts nothing when it raises DuplicateKeyError
create_player(email, username, token) ==
    IF duplicate_key(email, username)
    THEN players
    ELSE (player_key(email) :>
             [username |-> username, token |-> token, total_score |-> 0,
              best_run_score |-> 0])
         @@ players

\* a refresh that leaves the stored token as it was
update_token_dropped(email, new_token) == players

\* DatabaseManager.update_token
update_token(email, new_token) ==
    [players EXCEPT ![player_key(email)].token = new_token]

\* DatabaseManager.validate_token
validate_token(email, token) ==
    IF ~player_exists(email) THEN FALSE
    ELSE players[player_key(email)].token = token

\* DatabaseManager.finalize_run
finalize_run(email, run_score) ==
    IF player_exists(email)
       /\ run_score > players[player_key(email)].best_run_score
    THEN [players EXCEPT ![player_key(email)].best_run_score = run_score]
    ELSE players

\* DatabaseManager.save_game_session: upsert of the player's session
save_game_session(email, dumped, run_score) ==
    (player_key(email) :>
        [game_state |-> dumped, current_run_score |-> run_score])
    @@ cloud_saves

\* the history of the tokens stored for an email
record_token(email, token) ==
    IF player_key(email) \in DOMAIN issued
    THEN [issued EXCEPT ![player_key(email)] = Append(@, token)]
    ELSE (player_key(email) :> <<token>>) @@ issued

\* what the account tools return, with the email and token of the call
AccountResult(tool, error, email, token) ==
    [tool |-> tool, error |-> error, game_over |-> FALSE, success |-> TRUE,
     email |-> email, token |-> token]

AccountFail(tool, error, email, token) ==
    /\ result' = AccountResult(tool, error, email, token)
    /\ UNCHANGED <<has_game, game, persistent, multiplayer>>

\* register_player
RegisterPlayer(multiplayer_mode, email, username, email_sent) ==
    IF ~multiplayer_mode
    THEN AccountFail("register_player", "multiplayer_required", email, 0)
    ELSE IF ~validate_username(username)
    THEN AccountFail("register_player", "invalid_username", email, 0)
    ELSE IF player_exists(email)
    THEN AccountFail("register_player", "email_registered", email, 0)
    ELSE IF username_taken(username)
    THEN AccountFail("register_player", "username_taken", email, 0)
    ELSE LET token == generate_token
         IN  /\ players' = create_player(email, username, token)
             /\ issued' = record_token(email, token)
             /\ result' = AccountResult("register_player", "", email,
                                        IF email_sent THEN token ELSE 0)
             /\ UNCHANGED <<has_game, game, persistent, in_flight, player_session,
                            cloud_saves>>

\* login.  The "Player not found" return after a successful validate_token
\* needs the player to vanish between two reads and is left out.
Login(multiplayer_mode, email, token) ==
    IF ~multiplayer_mode
    THEN AccountFail("login", "multiplayer_required", email, token)
    ELSE IF ~validate_token(email, token)
    THEN AccountFail("login", "invalid_token", email, token)
    ELSE LET player == players[player_key(email)]
             session == [is_authenticated |-> TRUE, email |-> email,
                         username |-> player.username,
                         current_run_score |-> 0]
         IN  /\ IF player_key(email) \in DOMAIN cloud_saves
                THEN LET saved_session == cloud_saves[player_key(email)]
                     IN  /\ RestoreGameState(
                                parse_game_state(saved_session.game_state))
                         /\ player_session' =
                                [session EXCEPT !.current_run_score =
                                     saved_session.current_run_score]
                ELSE /\ player_session' = session
                     /\ UNCHANGED <<has_game, game>>
             /\ result' = AccountResult("login", "", email, token)
             /\ UNCHANGED <<persistent, in_flight, players, issued, cloud_saves>>

\* refresh_token
RefreshToken(multiplayer_mode, email, email_sent) ==
    IF ~multiplayer_mode
    THEN AccountFail("refresh_token", "multiplayer_required", email, 0)
    ELSE IF ~player_exists(email)
    THEN AccountFail("refresh_token", "not_registered", email, 0)
    ELSE LET new_token == generate_token
         IN  /\ players' = update_token(email, new_token)
             /\ issued' = record_token(email, new_token)
             /\ result' =
                    IF email_sent
                    THEN AccountResult("refresh_token", "", email, new_token)
                    ELSE AccountResult("refresh_token", "email_failed",
                                       email, 0)
             /\ UNCHANGED <<has_game, game, persistent, in_flight, player_session,
                            cloud_saves>>

\* logout
Logout(multiplayer_mode) ==
    IF ~multiplayer_mode
    THEN AccountFail("logout", "multiplayer_required", <<>>, 0)
    ELSE IF ~player_session.is_authenticated
    THEN AccountFail("logout", "not_logged_in", <<>>, 0)
    ELSE /\ cloud_saves' =
                IF has_game
                THEN save_game_session(player_session.email,
                                       model_dump(game_state),
                                       player_session.current_run_score)
                ELSE cloud_saves
         /\ players' = finalize_run(player_session.email,
                                    player_session.current_run_score)
         /\ player_session' = NoSession
         /\ result' = AccountResult("logout", "", player_session.email, 0)
         /\ UNCHANGED <<has_game, game, persistent, in_flight, issued>>

(***************************************************************************)
(* The account tools with MULTIPLAYER_MODE set: players register, log in,  *)
(* refresh their tokens and log out, and a game is created, saved and      *)
(* loaded through the cloud session of the player logged in.               *)
(***************************************************************************)
\* the most tokens generated
MaxTokens == 3

\* two spellings of one address, and another address
Emails ==
    { <<"h", "@", "x">>, <<"H", "@", "x">>, <<"b", "@", "x">> }

\* two usernames the pattern admits, one too short, one too long, one with
\* a character outside the pattern
Usernames ==
    { <<"b", "o", "b">>, <<"H", "_", "1">>, <<"a", "l">>,
      [i \in 1..(MAX_USERNAME_LENGTH + 1) |-> "a"],
      <<"b", "o", "b", "!">> }

\* the tokens login is called with: every token generated, and one never
\* generated
Tokens == 0..MaxTokens

NextAccounts ==
    \/ /\ Cardinality(TokensIssued) < MaxTokens
       /\ \E email \in Emails, username \in Usernames, email_sent \in BOOLEAN :
              RegisterPlayer(TRUE, email, username, email_sent)
    \/ \E email \in Emails, token \in Tokens : Login(TRUE, email, token)
    \/ /\ Cardinality(TokensIssued) < MaxTokens
       /\ \E email \in Emails, email_sent \in BOOLEAN :
              RefreshToken(TRUE, email, email_sent)
    \/ Logout(TRUE)
    \/ /\ UNCHANGED <<persistent, multiplayer>>
       /\ \E role \in RolesPlayed, draw \in GameDraws :
              CreateCharacter(role, draw)
    \/ SaveGame(TRUE)
    \/ LoadGame(TRUE, NoSaveId)

SpecAccounts == Init /\ [][NextAccounts]_vars

(***************************************************************************)
(* roll_dice on its own: a notation is written as text, roll_dice parses   *)
(* it with re.match(r'(\d+)d(\d+)([+-]\d+)?', notation.lower().strip())    *)
(* and rolls num_dice dice of die_size sides.  The dice random.randint     *)
(* rolls are an input of the call.                                         *)
(***************************************************************************)
\* most dice of a notation
MaxDice == 2

\* most sides of a die
MaxDieSize == 3

\* largest modifier of a notation, in absolute value
MaxModifier == 3

Digits == Range(DigitChars)

\* the value of one digit character
DigitValue(c) == CHOOSE v \in 0..9 : DigitChars[v + 1] = c

\* int() of a sequence of digit characters
RECURSIVE DigitsToInt(_)
DigitsToInt(s) ==
    IF s = <<>> THEN 0
    ELSE 10 * DigitsToInt(SubSeq(s, 1, Len(s) - 1)) + DigitValue(s[Len(s)])

\* how many of the characters of s from position i on are digits (\d+)
RECURSIVE DigitRun(_, _)
DigitRun(s, i) ==
    IF i > Len(s) \/ s[i] \notin Digits THEN 0 ELSE 1 + DigitRun(s, i + 1)

\* str.strip() of the blanks at both ends
RECURSIVE Strip(_)
Strip(s) ==
    IF s = <<>> THEN s
    ELSE IF Head(s) = " " THEN Strip(Tail(s))
    ELSE IF s[Len(s)] = " " THEN Strip(SubSeq(s, 1, Len(s) - 1))
    ELSE s

NoMatch == [matched |-> FALSE, num_dice |-> 0, die_size |-> 0, modifier |-> 0]

\* re.match of the dice pattern at the start of s, with the three groups
\* converted by int()
match_dice(s) ==
    LET n_len == DigitRun(s, 1)
        m_at == n_len + 2
        m_len == DigitRun(s, m_at)
        k_at == m_at + m_len
        k_len == IF k_at <= Len(s) /\ s[k_at] \in {"+", "-"}
                 THEN DigitRun(s, k_at + 1) ELSE 0
    IN  IF n_len = 0 \/ n_len + 1 > Len(s) \/ s[n_len + 1] # "d" \/ m_len = 0
        THEN NoMatch
        ELSE [matched |-> TRUE,
              num_dice |-> DigitsToInt(SubSeq(s, 1, n_len)),
              die_size |-> DigitsToInt(SubSeq(s, m_at, m_at + m_len - 1)),
              modifier |->
                  IF k_len = 0 THEN 0
                  ELSE LET k == DigitsToInt(SubSeq(s, k_at + 1, k_at + k_len))
                       IN  IF s[k_at] = "-" THEN 0 - k ELSE k]

\* int(notation) of the fallback: an optional sign and digits, blanks
\* stripped; anything else raises ValueError
parse_int(s) ==
    LET t == Strip(s)
        signed == t # <<>> /\ t[1] \in {"+", "-"}
        body == IF signed THEN Tail(t) ELSE t
    IN  IF body # <<>> /\ DigitRun(body, 1) = Len(body)
        THEN [ok |-> TRUE,
              value |-> IF signed /\ t[1] = "-" THEN 0 - DigitsToInt(body)
                        ELSE DigitsToInt(body)]
        ELSE [ok |-> FALSE, value |-> 0]

\* a total that is not kept from going below zero
dice_total_unclamped(rolls, modifier) == SumSeq(rolls) + modifier

\* max(0, sum(rolls) + modifier)
dice_total(rolls, modifier) == Max(0, SumSeq(rolls) + modifier)

\* roll_dice(notation) when random.randint returns the values of `rolls`
\* in turn: total, individual rolls, and whether the call raised (randint
\* over the empty range 1..0)
roll_dice_text(notation, rolls) ==
    LET m == match_dice(Strip(LowerStr(notation)))
    IN  IF ~m.matched
        THEN [total |-> parse_int(notation).value, rolls |-> <<>>,
              raised |-> FALSE]
        ELSE IF m.num_dice > 0 /\ m.die_size = 0
        THEN [total |-> 0, rolls |-> <<>>, raised |-> TRUE]
        ELSE [total |-> dice_total(SubSeq(rolls, 1, m.num_dice), m.modifier),
              rolls |-> SubSeq(rolls, 1, m.num_dice), raised |-> FALSE]

\* f"{n}d{m}", f"{n}d{m}+{k}" or f"{n}d{m}-{k}", with the letter and the
\* blanks around it as the caller writes them
Notation(n, m, k, letter, blanks) ==
    blanks \o Str(n) \o <<letter>> \o Str(m)
        \o (IF k > 0 THEN <<"+">> \o Str(k)
            ELSE IF k < 0 THEN <<"-">> \o Str(0 - k)
            ELSE <<>>)
        \o blanks

\* texts that are no dice notation
PlainTexts == { <<"7">>, <<"-", "2">>, <<"x">>, <<"d", "6">> }

\* a call of roll_dice about to be made: the notation (of n dice of m sides
\* with modifier k, or a plain text) and the values random.randint returns
DiceCall(notation, n, m, k, drawn) ==
    [tool |-> "roll_dice_call", error |-> "", game_over |-> FALSE,
     success |-> TRUE, notation |-> notation, n |-> n, m |-> m, k |-> k,
     drawn |-> drawn]

\* the modifiers written: the small ones, and two of two digits
Modifiers == (0 - MaxModifier)..MaxModifier \cup {0 - 10, 10}

DiceCalls ==
    { DiceCall(Notation(c.n, c.m, c.k, letter, blanks), c.n, c.m, c.k, drawn) :
        c \in [n : 0..MaxDice, m : 0..MaxDieSize, k : Modifiers],
        letter \in {"d", "D"}, blanks \in {<<>>, <<" ">>},
        drawn \in [1..MaxDice -> 1..MaxDieSize] }
    \cup { DiceCall(notation, 0, 0, 0, <<>>) : notation \in PlainTexts }

DiceResult(call, rolled) ==
    [tool |-> "roll_dice", error |-> "", game_over |-> FALSE,
     success |-> TRUE, notation |-> call.notation, n |-> call.n,
     m |-> call.m, k |-> call.k, total |-> rolled.total,
     rolls |-> rolled.rolls, raised |-> rolled.raised]

InitDice ==
    /\ has_game = FALSE
    /\ hero = NoHero
    /\ dungeon_map = NoExits
    /\ current_room_id = StartId
    /\ combat = NoCombat
    /\ depth = 1
    /\ max_depth_reached = 1
    /\ turn_count = 0
    /\ result \in {call \in DiceCalls :
                      \A i \in 1..Len(call.drawn) : call.drawn[i] <= Max(1, call.m)}
    /\ NothingStored

\* roll_dice(notation)
RollDice ==
    /\ result.tool = "roll_dice_call"
    /\ result' = DiceResult(result, roll_dice_text(result.notation,
                                                   result.drawn))
    /\ UNCHANGED <<has_game, game, persistent, multiplayer>>

NextDice == RollDice

SpecDice == InitDice /\ [][NextDice]_vars

(***************************************************************************)
(* CombatSystem.calculate_damage on its own: the attacker's throughput,    *)
(* the weapon (or none), the total its dice rolled, the target's armor,    *)
(* the skill multiplier in quarters, ignore_armor and the outcome of       *)
(* critical_hit_check() are drawn, and the function is applied to them.    *)
(***************************************************************************)
\* largest armor of a target
MaxArmor == 3

\* a weapon of damage dice "2d6"
TwoD6Weapon ==
    Item("two_d6", <<"2", "d", "6">>, "weapon", Dice(2, 6, 0), 0, "none", 0)

\* throughput values on both sides of a multiple of 5
Throughputs == {0, 4, 5, 14}

\* skill multipliers 0.5, 1.0, 1.25 and 1.5, in quarters
Multipliers4 == {2, 4, 5, 6}

DamageCalls ==
    { [tool |-> "calculate_damage_call", error |-> "", game_over |-> FALSE,
       success |-> TRUE, throughput |-> c.throughput, weapon |-> c.weapon,
       roll |-> roll, armor |-> c.armor, mult4 |-> c.mult4,
       ignore_armor |-> c.ignore_armor, is_crit |-> c.is_crit] :
        c \in [throughput : Throughputs, weapon : {NoItem, TwoD6Weapon},
               armor : 0..MaxArmor, mult4 : Multipliers4,
               ignore_armor : BOOLEAN, is_crit : BOOLEAN],
        roll \in roll_dice(TwoD6Weapon.damage_dice) }

DamageResult(call, final_damage) ==
    [tool |-> "calculate_damage", error |-> "", game_over |-> FALSE,
     success |-> TRUE, throughput |-> call.throughput,
     weapon |-> call.weapon, roll |-> call.roll, armor |-> call.armor,
     mult4 |-> call.mult4, ignore_armor |-> call.ignore_armor,
     is_crit |-> call.is_crit, final_damage |-> final_damage]

InitDamage ==
    /\ has_game = FALSE
    /\ hero = NoHero
    /\ dungeon_map = NoExits
    /\ current_room_id = StartId
    /\ combat = NoCombat
    /\ depth = 1
    /\ max_depth_reached = 1
    /\ turn_count = 0
    /\ result \in DamageCalls
    /\ NothingStored

\* CombatSystem.calculate_damage(attacker_stats, weapon, target,
\* skill_multiplier, ignore_armor)
CalculateDamage ==
    /\ result.tool = "calculate_damage_call"
    /\ result' = DamageResult(result,
                     calculate_damage(result.throughput, result.weapon,
                                      result.roll, result.armor, result.mult4,
                                      result.ignore_armor, result.is_crit))
    /\ UNCHANGED <<has_game, game, persistent, multiplayer>>

NextDamage == CalculateDamage

SpecDamage == InitDamage /\ [][NextDamage]_vars

(***************************************************************************)
(* The turn order of a CombatState on its own: initialize_combat builds    *)
(* and shuffles it, next_turn advances the pointer.  No tool of server.py  *)
(* calls next_turn or reads the turn order; here the CombatState carries   *)
(* turn_order, current_turn_index and round_num beside its other fields.   *)
(***************************************************************************)
\* most enemies of a combat whose turns are followed
MaxSlots == 3

\* most next_turn calls on one CombatState
MaxTurns == 8

\* f"enemy_{i}" for i = 0, 1, ...
enemy_slots == <<"enemy_0", "enemy_1", "enemy_2", "enemy_3", "enemy_4">>

\* ["hero"] + [f"enemy_{i}" for i, enemy in enumerate(enemies)]
unshuffled_turn_order(enemy_count) ==
    <<"hero">> \o SubSeq(enemy_slots, 1, enemy_count)

\* the orders random.shuffle can leave a list in
Shuffles(s) ==
    { [i \in 1..Len(s) |-> s[p[i]]] : p \in Permutations(1..Len(s)) }

\* CombatSystem.initialize_combat with the outcome of random.shuffle
initialize_combat_turns(turn_order) ==
    [present |-> TRUE, active |-> TRUE, hero_defending |-> FALSE,
     enemies_defeated |-> 0, turn_order |-> turn_order,
     current_turn_index |-> 0, round_num |-> 1]

\* a pointer that runs past the end of the turn order
next_turn_without_wrap(cs) ==
    [cs EXCEPT !.current_turn_index = @ + 1]

\* CombatState.next_turn
next_turn(cs) ==
    IF cs.current_turn_index + 1 >= Len(cs.turn_order)
    THEN [cs EXCEPT !.current_turn_index = 0, !.round_num = @ + 1]
    ELSE [cs EXCEPT !.current_turn_index = @ + 1]

\* CombatState.get_current_turn
get_current_turn(cs) ==
    IF cs.turn_order = <<>> THEN "hero"
    ELSE cs.turn_order[(cs.current_turn_index % Len(cs.turn_order)) + 1]

\* what was called, for how many enemies, and the next_turn calls so far
TurnResult(tool, enemy_count, calls, current_turn) ==
    [tool |-> tool, error |-> "", game_over |-> FALSE, success |-> TRUE,
     enemy_count |-> enemy_count, calls |-> calls,
     current_turn |-> current_turn]

\* CombatSystem.initialize_combat(hero, enemies)
InitializeCombat(enemy_count, turn_order) ==
    /\ combat' = initialize_combat_turns(turn_order)
    /\ result' = TurnResult("initialize_combat", enemy_count, 0,
                            get_current_turn(combat'))
    /\ UNCHANGED <<has_game, hero, dungeon_map, current_room_id, depth,
                   max_depth_reached, turn_count>>

\* combat.next_turn()
NextTurn ==
    /\ combat.present
    /\ result.calls < MaxTurns
    /\ combat' = next_turn(combat)
    /\ result' = TurnResult("next_turn", result.enemy_count,
                            result.calls + 1, get_current_turn(combat'))
    /\ UNCHANGED <<has_game, hero, dungeon_map, current_room_id, depth,
                   max_depth_reached, turn_count>>

NextTurns ==
    /\ UNCHANGED <<persistent, multiplayer>>
    /\ \/ \E enemy_count \in 0..MaxSlots :
              \E turn_order \in Shuffles(unshuffled_turn_order(enemy_count)) :
                  InitializeCombat(enemy_count, turn_order)
       \/ NextTurn

SpecTurns == Init /\ [][NextTurns]_vars

(***************************************************************************)
(* A player who creates one game and keeps walking north.  Every room of   *)
(* the first level is drawn as a treasure room, which holds no enemy, so   *)
(* nothing blocks the way; the player never stops while a move changes     *)
(* anything (weak fairness of the player's steps).                         *)
(***************************************************************************)
\* the numbers random.randint draws for the room ids
DescentRoomNumbers == {1001, 1002, 1003}

DescentDraws ==
    { [start_loot |-> <<>>,
       rooms |-> [i \in 1..4 |-> RoomDraw("treasure", n[i], <<1>>, <<>>)]] :
        n \in [1..4 -> DescentRoomNumbers] }

\* the rooms drawn for a level that move generates
DescentLevelDraw == [i \in 1..4 |-> RoomDraw("treasure", 1000 + i, <<1>>, <<>>)]

NextDescent ==
    /\ UNCHANGED <<persistent, multiplayer>>
    /\ \/ /\ ~has_game
          /\ \E role \in Roles, draw \in DescentDraws : CreateCharacter(role, draw)
       \/ Move("north", DescentLevelDraw)

SpecDescent == Init /\ [][NextDescent]_vars /\ WF_vars(NextDescent)

(***************************************************************************)
(* register_player called by several workers at once.  The call reads the  *)
(* players collection twice (get_player, get_player_by_username) and then  *)
(* inserts; each of the three database operations is atomic, and the calls *)
(* of other workers may run between them.  in_flight[w] holds how far the  *)
(* call of worker w has come.                                              *)
(***************************************************************************)
Begun(op, email, username) ==
    [Idle EXCEPT !.op = op, !.email = email, !.username = username]

\* register_player up to db.get_player(email)
RegisterGetPlayer(w, email, username) ==
    /\ in_flight[w] = Idle
    /\ IF ~validate_username(username)
       THEN AccountFail("register_player", "invalid_username", email, 0)
       ELSE IF player_exists(email)
       THEN AccountFail("register_player", "email_registered", email, 0)
       ELSE /\ in_flight' =
                   [in_flight EXCEPT
                        ![w] = Begun("get_player_by_username", email,
                                     username)]
            /\ UNCHANGED <<has_game, game, result, persistent, players,
                           issued, player_session, cloud_saves>>

\* register_player: db.get_player_by_username(username)
RegisterGetPlayerByUsername(w) ==
    LET call == in_flight[w]
    IN  /\ call.op = "get_player_by_username"
        /\ IF username_taken(call.username)
           THEN /\ in_flight' = [in_flight EXCEPT ![w] = Idle]
                /\ result' = AccountResult("register_player",
                                           "username_taken", call.email, 0)
           ELSE /\ in_flight' =
                       [in_flight EXCEPT ![w].op = "create_player"]
                /\ UNCHANGED result
        /\ UNCHANGED <<has_game, game, persistent, players, issued,
                       player_session, cloud_saves>>

\* register_player from generate_token() to its return: db.create_player
\* raises ValueError when insert_one inserted nothing, and the token
\* generated for it is then dropped
RegisterCreatePlayer(w, email_sent) ==
    LET call == in_flight[w]
        token == generate_token
        inserted == create_player(call.email, call.username, token)
    IN  /\ call.op = "create_player"
        /\ in_flight' = [in_flight EXCEPT ![w] = Idle]
        /\ players' = inserted
        /\ IF inserted = players
           THEN /\ result' = AccountResult("register_player",
                                           "registration_failed",
                                           call.email, 0)
                /\ UNCHANGED issued
           ELSE /\ issued' = record_token(call.email, token)
                /\ result' = AccountResult("register_player", "", call.email,
                                           IF email_sent THEN token ELSE 0)
        /\ UNCHANGED <<has_game, game, persistent, player_session,
                       cloud_saves>>

NextRegistrations ==
    \/ \E w \in Workers, email \in Emails, username \in Usernames :
           RegisterGetPlayer(w, email, username)
    \/ \E w \in Workers : RegisterGetPlayerByUsername(w)
    \/ \E w \in Workers, email_sent \in BOOLEAN :
           RegisterCreatePlayer(w, email_sent)

SpecRegistrations == Init /\ [][NextRegistrations]_vars

(***************************************************************************)
(* finalize_run called by several workers at once: logout runs it for the  *)
(* player of its session, and one player may be logged in on several       *)
(* servers.  finalize_run reads the player (get_player) and then writes    *)
(* best_run_score with update_one; the calls of other workers may run      *)
(* between the read and the write.                                         *)
(***************************************************************************)
\* the highest current_run_score a session ends with
MaxScore == 2

RunScores == 0..MaxScore

\* the players whose runs end: one registered under another spelling, and
\* one who may not be registered
ScoreEmails == { <<"H", "@", "x">>, <<"b", "@", "x">> }

\* what a finished finalize_run leaves for the properties to read
ScoreResult(email, run_score) ==
    [tool |-> "finalize_run", error |-> "", game_over |-> FALSE,
     success |-> TRUE, email |-> email, token |-> 0,
     run_score |-> run_score]

\* finalize_run: player = self.get_player(email)
FinalizeRunGetPlayer(w, email, run_score) ==
    /\ in_flight[w] = Idle
    /\ IF ~player_exists(email)
       THEN /\ result' = ScoreResult(email, run_score)
            /\ UNCHANGED in_flight
       ELSE /\ in_flight' =
                   [in_flight EXCEPT
                        ![w] = [Idle EXCEPT
                                    !.op = "update_one",
                                    !.email = email,
                                    !.run_score = run_score,
                                    !.best_run_score =
                                        players[player_key(email)]
                                            .best_run_score]]
            /\ UNCHANGED result
    /\ UNCHANGED <<has_game, game, persistent, players, issued,
                   player_session, cloud_saves>>

\* finalize_run: the comparison with the player that was read, and
\* update_one with $set
FinalizeRunUpdateOne(w) ==
    LET call == in_flight[w]
    IN  /\ call.op = "update_one"
        /\ players' =
               IF call.run_score > call.best_run_score
               THEN [players EXCEPT ![player_key(call.email)].best_run_score =
                                        call.run_score]
               ELSE players
        /\ in_flight' = [in_flight EXCEPT ![w] = Idle]
        /\ result' = ScoreResult(call.email, call.run_score)
        /\ UNCHANGED <<has_game, game, persistent, issued, player_session,
                       cloud_saves>>

NextScores ==
    \/ /\ Cardinality(TokensIssued) < MaxTokens
       /\ \E email \in Emails, username \in Usernames :
              RegisterPlayer(TRUE, email, username, TRUE)
    \/ \E w \in Workers, email \in ScoreEmails, run_score \in RunScores :
           FinalizeRunGetPlayer(w, email, run_score)
    \/ \E w \in Workers : FinalizeRunUpdateOne(w)

SpecScores == Init /\ [][NextScores]_vars

(***************************************************************************)
(* Properties of the tools (specification Spec)                            *)
(***************************************************************************)
GameplayTools ==
    {"move", "attack", "defend", "flee", "rest", "use_item", "pickup", "equip"}

\* <<room id, index>> of every enemy of a dungeon map
AllEnemies(map) ==
    UNION { { <<id, i>> : i \in 1..Len(map[id].enemies) } : id \in DOMAIN map }

C2_ErrorsLeaveStateAlone ==
    [][(result'.tool \in GameplayTools /\ result'.error # "") => game' = game]_vars

\* C3: an enemy flagged immune_until_examined keeps its hp in every step
\* taken while its is_examined flag is false.
C3_ExamineGateHolds ==
    [][(has_game /\ result'.tool # "create_character") =>
          \A k \in AllEnemies(dungeon_map) :
              LET e == dungeon_map[k[1]].enemies[k[2]] IN
              (e.immune_until_examined /\ ~e.is_examined) =>
                  dungeon_map'[k[1]].enemies[k[2]].hp = e.hp]_vars

\* an attack has just been turned away by an unexamined immune enemy that is
\* still at full health
C3_AttackTurnedAway ==
    /\ has_game
    /\ result.tool = "attack" /\ result.error = "" /\ ~result.success
    /\ \E i \in AliveIndexes(CurrentRoom) :
          LET e == CurrentRoom.enemies[i] IN
          e.immune_until_examined /\ ~e.is_examined /\ e.hp = e.max_hp

\* C4: an attack call blocked by the examine gate leaves the hero's
\* api_credits and uptime and every enemy's hp as they were.
C4_BlockedAttackHasNoEffect ==
    [][(has_game /\ result'.tool = "attack" /\ result'.error = ""
           /\ ~result'.success) =>
          /\ hero'.api_credits = hero.api_credits
          /\ hero'.uptime = hero.uptime
          /\ \A k \in AllEnemies(dungeon_map) :
                dungeon_map'[k[1]].enemies[k[2]].hp
                    = dungeon_map[k[1]].enemies[k[2]].hp]_vars

\* C8: move leaves current_room_id alone whenever the current room holds
\* an enemy with hp > 0.
C8_LivingEnemyBlocksMove ==
    [][(has_game /\ result'.tool = "move" /\ AliveIndexes(CurrentRoom) # {}) =>
          current_room_id' = current_room_id]_vars

\* move has just been refused in a room that was cleared, then ambushed,
\* and whose fight the hero has fled
C8_BlockedAfterAmbushAndFlee ==
    /\ has_game
    /\ result.tool = "move" /\ result.error = "path_blocked"
    /\ combat.present /\ ~combat.active
    /\ AliveIndexes(CurrentRoom) # {}
    /\ \E i \in 1..Len(CurrentRoom.enemies) : CurrentRoom.enemies[i].hp = 0

\* C9: in every reachable state every room of the dungeon map is cleared
\* exactly when none of its enemies has hp > 0.
C9_ClearedIffNoLivingEnemy ==
    has_game =>
        \A id \in DOMAIN dungeon_map :
            dungeon_map[id].is_cleared <=> (AliveIndexes(dungeon_map[id]) = {})

\* C10: once the hero's uptime is 0, no gameplay tool raises it or changes
\* the hero, the enemies or the rooms.
C10_DefeatIsTerminal ==
    [][(has_game /\ hero.uptime = 0 /\ result'.tool \in GameplayTools) =>
          (hero' = hero /\ dungeon_map' = dungeon_map)]_vars

\* C12: combat.hero_defending is false in every state between tool calls.
C12_DefendingFlagIsPerCall ==
    (has_game /\ combat.present) => ~combat.hero_defending

\* the hero after every enemy of `alive` has attacked once, in order
RECURSIVE EveryEnemyAttacksOnce(_, _, _, _)
EveryEnemyAttacksOnce(alive, h, cs, rolls) ==
    IF alive = <<>> THEN h
    ELSE EveryEnemyAttacksOnce(Tail(alive),
                               enemy_attack(Head(alive), h, cs, Head(rolls)).hero,
                               cs, Tail(rolls))

C14_CombatGate ==
    [][has_game =>
          /\ (result'.tool \in {"defend", "flee"}
                  /\ ~(combat.present /\ combat.active)) =>
                 (result'.error = "not_in_combat" /\ game' = game)
          /\ (result'.tool \in {"move", "rest"}
                  /\ combat.present /\ combat.active) =>
                 (result'.error = "in_combat" /\ game' = game)]_vars

\* defend has just been refused after a successful flee: the CombatState is
\* still there, but inactive
C14_DefendRefusedAfterFlee ==
    /\ has_game
    /\ result.tool = "defend" /\ result.error = "not_in_combat"
    /\ combat.present /\ ~combat.active

(***************************************************************************)
(* Properties of the tools in the dungeon with items (specification        *)
(* SpecItems)                                                              *)
(***************************************************************************)
\* escape consumables the hero carries
RECURSIVE EscapesCarried(_)
EscapesCarried(inv) ==
    IF inv = <<>> THEN 0
    ELSE (IF Head(inv).item.effect_type = "escape" THEN Head(inv).quantity ELSE 0)
             + EscapesCarried(Tail(inv))

C19_MaximaAreDerived ==
    has_game =>
        /\ hero.max_uptime = calculate_max_uptime(hero)
        /\ hero.max_api_credits = calculate_max_api_credits(hero)

\* the hero has gained a level and has just used the third recipe fragment:
\* both the level-up and the fragment bonus have raised max_uptime
C19_LevelAndFragmentBonus ==
    /\ has_game
    /\ result.tool = "use_item" /\ result.error = ""
    /\ hero.level > 1
    /\ hero.recipe_fragments = 3
    /\ hero.max_uptime = NewHero(hero.role).max_uptime + 5 + 5

(***************************************************************************)
(* Properties of CombatSystem (specification SpecEncounter)                *)
(***************************************************************************)
\* C5: every hero attack that resolves against a non-immune enemy deals at
\* least 1 damage, whatever the roll, the skill, the target's armor and the
\* hero's status effects.
C5_HeroAttackDealsDamage ==
    (result.tool = "hero_attack" /\ result.success) => result.damage_dealt >= 1

\* C6: every enemy attack deals at least 1 damage to the hero, defending or
\* not, whatever the hero's armor value and the roll.
C6_EnemyAttackDealsDamage ==
    result.tool = "enemy_attack" => result.damage_dealt >= 1

EnemySpawnedAtFullHp ==
    \A k \in AllEnemies(dungeon_map) :
        dungeon_map[k[1]].enemies[k[2]].hp = dungeon_map[k[1]].enemies[k[2]].max_hp

EnemyHpInRange ==
    \A k \in AllEnemies(dungeon_map) :
        LET e == dungeon_map[k[1]].enemies[k[2]] IN 0 <= e.hp /\ e.hp <= e.max_hp

LethalHitLeavesZero ==
    (result'.tool = "hero_attack" /\ result'.success
        /\ result'.damage_dealt >= CurrentRoom.enemies[1].hp) =>
        CurrentRoom'.enemies[1].hp = 0

\* C7: an enemy is spawned with hp = max_hp and has 0 <= hp <= max_hp in
\* every reachable state; a hit whose damage is at least the remaining hp
\* sets hp to exactly 0, also when the hp is 0 already.
C7_EnemyHpClamped ==
    EnemySpawnedAtFullHp /\ []EnemyHpInRange /\ [][LethalHitLeavesZero]_vars

\* a defeated enemy has taken a further lethal hit
C7_HitAgainAfterDefeat ==
    /\ result.tool = "hero_attack" /\ result.enemy_defeated
    /\ result.damage_dealt >= 1
    /\ combat.enemies_defeated = 2
    /\ CurrentRoom.enemies[1].hp = 0

(***************************************************************************)
(* Properties of ProgressionSystem (specification SpecProgression)         *)
(***************************************************************************)
RECURSIVE XpOfLevels(_, _)
XpOfLevels(from, to) ==
    IF from > to THEN 0
    ELSE xp_required_for_level(from) + XpOfLevels(from + 1, to)

\* C15: add_experience returns with xp below the requirement of the next
\* level, and the old xp plus the grant equals the new xp plus the
\* requirements of all levels gained; 5000 xp at level 1 with 0 xp gains more
\* than one level in the one call.
C15_ExperienceIsConserved ==
    [][result'.tool = "add_experience" =>
          /\ hero'.xp < xp_required_for_level(hero'.level + 1)
          /\ hero'.level >= hero.level
          /\ hero.xp + result'.amount
                 = hero'.xp + XpOfLevels(hero.level + 1, hero'.level)
          /\ (hero.level = 1 /\ hero.xp = 0 /\ result'.amount = 5000) =>
                 hero'.level > hero.level + 1]_vars

\* one grant of 5000 xp has taken a hero past several levels at once
C15_SeveralLevelsInOneCall ==
    /\ result.tool = "add_experience" /\ result.amount = 5000
    /\ result.leveled_up
    /\ hero.level = 6 /\ hero.xp = 812

\* C16: after an add_experience call that gains a level, uptime equals
\* max_uptime and api_credits equals max_api_credits, and both maxima are
\* the values derived from the new stats, the class modifier and the
\* fragment count.
C16_LevelUpRestores ==
    [][(result'.tool = "add_experience" /\ hero'.level > hero.level) =>
          /\ hero'.max_uptime = calculate_max_uptime(hero')
          /\ hero'.max_api_credits = calculate_max_api_credits(hero')
          /\ hero'.uptime = hero'.max_uptime
          /\ hero'.api_credits = hero'.max_api_credits]_vars

\* a hero holding collected fragments has just gained a level and stands at
\* full bars, above the maxima a hero is created with
C16_DamagedHeroRestored ==
    /\ result.tool = "add_experience" /\ result.leveled_up
    /\ hero.recipe_fragments >= 3
    /\ hero.uptime = hero.max_uptime
    /\ hero.max_uptime > NewHero(hero.role).max_uptime

\* C17: add_gold never leaves hero.gold below 0.
C17_GoldNeverNegative == hero.gold >= 0

\* C18: add_recipe_fragment adds exactly 1 to the fragment counter; it
\* reports a bonus exactly when the new count is a multiple of 3, and on
\* exactly those calls max_uptime grows by exactly 5, otherwise not at all.
C18_FragmentBonus ==
    [][result'.tool = "add_recipe_fragment" =>
          /\ hero'.recipe_fragments = hero.recipe_fragments + 1
          /\ result'.bonus_applied <=> (hero'.recipe_fragments % 3 = 0)
          /\ hero'.max_uptime =
                 IF result'.bonus_applied THEN hero.max_uptime + 5
                 ELSE hero.max_uptime]_vars

(***************************************************************************)
(* Properties of the inventory (specification SpecInventory)               *)
(***************************************************************************)
InventoryIds(h) == {h.inventory[i].item.id : i \in 1..Len(h.inventory)}

\* C20: the inventory always has at most MAX_INVENTORY_SIZE entries, no two
\* of them with the same item id, each with quantity >= 1; adding an item
\* whose id is not present fails, leaving the inventory as it was, exactly
\* when 20 entries are held; and a pickup that fails because the inventory
\* is full leaves the item in the room.
C20_InventoryBounded ==
    /\ [](has_game =>
            /\ Len(hero.inventory) <= MAX_INVENTORY_SIZE
            /\ \A i, j \in 1..Len(hero.inventory) :
                   hero.inventory[i].item.id = hero.inventory[j].item.id => i = j
            /\ \A i \in 1..Len(hero.inventory) : hero.inventory[i].quantity >= 1)
    /\ [][/\ (result'.tool = "add_to_inventory"
                 /\ result'.item \notin InventoryIds(hero)) =>
              /\ ~result'.success <=> Len(hero.inventory) = 20
              /\ ~result'.success => hero' = hero
              /\ result'.success =>
                     /\ Len(hero'.inventory) = Len(hero.inventory) + 1
                     /\ hero'.inventory[Len(hero'.inventory)].item.id = result'.item
                     /\ hero'.inventory[Len(hero'.inventory)].quantity = 1
                     /\ SubSeq(hero'.inventory, 1, Len(hero.inventory)) = hero.inventory
          /\ (result'.tool = "pickup" /\ result'.error = "inventory_full") =>
              /\ Len(hero.inventory) = 20
              /\ hero' = hero
              /\ dungeon_map' = dungeon_map
          /\ (result'.tool = "pickup" /\ result'.error = "") =>
              /\ Len(dungeon_map'[current_room_id].items) = Len(CurrentRoom.items) - 1
              /\ \/ Len(hero.inventory) < 20
                 \/ InventoryIds(hero') = InventoryIds(hero)
          ]_vars

\* with twenty entries held, picking up the overflow potion has just failed
\* and the potion is still in the room
C20_PickupRefusedWhenFull ==
    /\ result.tool = "pickup" /\ result.error = "inventory_full"
    /\ Len(hero.inventory) = 20
    /\ overflow_potion.id \notin InventoryIds(hero)
    /\ \E i \in 1..Len(CurrentRoom.items) : CurrentRoom.items[i] = overflow_potion

(***************************************************************************)
(* Properties of StatusEffectManager (specification SpecEffects)           *)
(***************************************************************************)
\* the indexes of the effects of a type
EffectsOfType(h, effect_type) ==
    {i \in 1..Len(h.status_effects) : h.status_effects[i].effect_type = effect_type}

\* the longer of two durations, permanent (-1) being longer than any other
LongerDuration(a, b) == IF a = -1 \/ b = -1 THEN -1 ELSE Max(a, b)

\* C21: after apply_effect(type, d) the hero has exactly one effect of that
\* type, and its duration is the longer of d and the duration the hero's
\* effect of that type had before (d itself when there was none), permanent
\* (-1) counting as longer than every finite duration.
C21_ApplyKeepsTheLonger ==
    [][result'.tool = "apply_effect" =>
          LET before == EffectsOfType(hero, result'.effect_type)
              after == EffectsOfType(hero', result'.effect_type)
          IN  /\ Cardinality(after) = 1
              /\ \A i \in after :
                     hero'.status_effects[i].duration =
                         IF before = {} THEN result'.duration
                         ELSE LongerDuration(
                                  hero.status_effects[FirstIndex(before)].duration,
                                  result'.duration)]_vars

\* the effects a tick leaves: the permanent ones as they were, the others
\* one turn shorter, and none of those that reached <= 0
RECURSIVE AfterTick(_)
AfterTick(effects) ==
    IF effects = <<>> THEN <<>>
    ELSE LET e == Head(effects) IN
         (IF e.duration = -1 THEN <<e>>
          ELSE IF e.duration - 1 <= 0 THEN <<>>
          ELSE << [e EXCEPT !.duration = @ - 1] >>)
             \o AfterTick(Tail(effects))

\* C22: a tick takes exactly 1 from the duration of every effect that is not
\* permanent, removes exactly the effects that reach <= 0 by it and reports
\* them, and leaves the permanent effects (duration -1) as they are; so no
\* effect is ever held with duration 0, and a permanent effect stays
\* through every tick.
C22_TickCountsDown ==
    /\ [](\A i \in 1..Len(hero.status_effects) :
            hero.status_effects[i].duration = -1 \/ hero.status_effects[i].duration >= 1)
    /\ [][result'.tool = "process_turn_effects" =>
            /\ hero'.status_effects = AfterTick(hero.status_effects)
            /\ Len(result'.expired) = Len(hero.status_effects) - Len(hero'.status_effects)
            /\ \A i \in 1..Len(hero.status_effects) :
                   hero.status_effects[i].duration = -1 =>
                       \E j \in 1..Len(hero'.status_effects) :
                           hero'.status_effects[j] = hero.status_effects[i]]_vars

\* a tick has just worn one effect off while the hero's permanent effect
\* stayed
C22_ExpiredBesidePermanent ==
    /\ result.tool = "process_turn_effects"
    /\ Len(result.expired) = 1
    /\ Len(hero.status_effects) = 1
    /\ hero.status_effects[1].duration = -1

(***************************************************************************)
(* Properties of the combat tools under status effects and special         *)
(* abilities (specification SpecAbilities)                                 *)
(***************************************************************************)
\* C23: while the hero carries the rate_limited effect, an attack, defend,
\* flee or use_item call resolves nothing: it leaves the hero and the
\* enemies as they were.
C23_RateLimitedHeroCannotAct ==
    [][(has_game /\ ~can_act(hero)
           /\ result'.tool \in {"attack", "defend", "flee", "use_item"}) =>
          (hero' = hero /\ dungeon_map' = dungeon_map)]_vars

\* the enemy of the room takes its turn in this step: an attack it survives,
\* a defend, or a flee that fails
EnemyTakesItsTurn ==
    /\ has_game /\ result'.error = ""
    /\ AliveIndexes(dungeon_map'[current_room_id]) = {1}
    /\ \/ result'.tool = "attack"
       \/ result'.tool = "defend"
       \/ result'.tool = "flee" /\ ~result'.success

\* C24: in every attack, defend or failed flee in which a living enemy with
\* the double_attack ability takes its turn, that enemy resolves two attacks
\* against the hero, unless the first of them defeats the hero: the hero's
\* uptime after the call is what two enemy_attack resolutions leave.
C24_DoubleAttackResolvesTwice ==
    [][(EnemyTakesItsTurn
           /\ CurrentRoom.enemies[1].special_ability = "double_attack") =>
          LET enemy == CurrentRoom.enemies[1]
              cs == [initialize_combat EXCEPT
                        !.hero_defending = (result'.tool = "defend")]
          IN  \E r1, r2 \in roll_dice(enemy.damage_dice) :
                  LET first == enemy_attack(enemy, hero, cs, r1) IN
                  \/ first.hero_defeated
                  \/ hero'.uptime = enemy_attack(enemy, first.hero, cs, r2).hero.uptime
       ]_vars

(***************************************************************************)
(* Properties of DungeonGenerator (specification SpecGeneration)           *)
(***************************************************************************)
BossRooms(map) == {id \in DOMAIN map : map[id].room_type = "boss"}

\* C27: a level generated at a depth with depth mod 5 = 0, whatever its room
\* count N >= 1, has at least one boss room, its last room is a boss room,
\* and every boss room holds exactly one enemy, of tier boss.
C27_BossLevels ==
    [][(result'.tool = "generate_dungeon_level" /\ result'.depth % 5 = 0) =>
          LET ids == result'.room_ids IN
          /\ BossRooms(dungeon_map') # {}
          /\ dungeon_map'[ids[Len(ids)]].room_type = "boss"
          /\ \A id \in BossRooms(dungeon_map') :
                 /\ Len(dungeon_map'[id].enemies) = 1
                 /\ dungeon_map'[id].enemies[1].tier = "boss"]_vars

\* a level of the second boss depth has just been generated with the most
\* rooms, of which two drew the same id
C27_BossLevelGenerated ==
    /\ result.tool = "generate_dungeon_level"
    /\ result.depth = 10
    /\ result.room_count = MaxRooms
    /\ Len(result.room_ids) = MaxRooms - 1
    /\ \A id \in DOMAIN dungeon_map : id \in BossRooms(dungeon_map)

\* C28: generate_dungeon_level(depth, N) returns exactly N rooms with
\* pairwise distinct ids, linked as one chain: the i-th room, i < N, has
\* exactly one exit and it leads to the (i+1)-th room.
C28_LevelIsAChainOfN ==
    [][result'.tool = "generate_dungeon_level" =>
          LET ids == result'.room_ids
              N == result'.room_count
          IN  /\ Len(ids) = N
              /\ Cardinality(DOMAIN dungeon_map') = N
              /\ \A i, j \in 1..Len(ids) : ids[i] = ids[j] => i = j
              /\ \A i \in 1..(Len(ids) - 1) :
                     /\ Cardinality(DOMAIN dungeon_map'[ids[i]].exits) = 1
                     /\ \A x \in DOMAIN dungeon_map'[ids[i]].exits :
                            dungeon_map'[ids[i]].exits[x] = ids[i + 1]]_vars

\* C29: create_starting_room returns a room that is cleared and holds no
\* enemy, with one exit, marked as not yet generated.
C29_StartingRoomIsCleared ==
    [][result'.tool = "create_starting_room" =>
          /\ dungeon_map'[StartId].is_cleared
          /\ dungeon_map'[StartId].enemies = <<>>
          /\ DOMAIN dungeon_map'[StartId].exits = {"north"}
          /\ dungeon_map'[StartId].exits["north"] = GeneratedId]_vars

(***************************************************************************)
(* Properties of save_game and load_game (specification SpecSaves)         *)
(***************************************************************************)
\* C25: save/load round-trips losslessly: whenever load_game succeeds with
\* a save id that save_game returned, the current GameState (hero, dungeon
\* map, current room, combat state, depth and counters) equals the
\* GameState that was current at each save_game call that returned this id.
C25_LoadRestoresTheSavedState ==
    [][(/\ result'.tool = "load_game"
        /\ result'.error = "")
       => \A i \in 1..Len(checkpoints) :
              checkpoints[i].save_id = result'.save_id
                  => /\ has_game'
                     /\ game_state' = checkpoints[i].game_state]_vars

\* C26: load_game never raises: a save id with no stored save and a stored
\* save that cannot be parsed both produce an error result, and the current
\* GameState is left unchanged.
C26_LoadNeverRaises ==
    [][result'.tool = "load_game"
       => /\ ~result'.raised
          /\ result'.error # "" => UNCHANGED <<has_game, game>>]_vars

(***************************************************************************)
(* Properties of the account tools (specification SpecAccounts)            *)
(***************************************************************************)
\* the tokens stored so far for the email of a call, oldest first
TokensFor(email) ==
    IF player_key(email) \in DOMAIN issued THEN issued[player_key(email)]
    ELSE <<>>

\* C30: login(email, token) succeeds exactly when token is the token most
\* recently issued for that email, by register_player or by the latest
\* refresh_token; every token issued for the email before the latest one
\* is rejected.
C30_LoginAcceptsOnlyTheLatestToken ==
    [][result'.tool = "login"
       => LET tokens == TokensFor(result'.email)
          IN  /\ result'.error = ""
                    <=> /\ tokens # <<>>
                        /\ result'.token = tokens[Len(tokens)]
              /\ \A i \in 1..(Len(tokens) - 1) :
                     result'.token = tokens[i] => result'.error # ""
              /\ result'.error = "" => player_session'.is_authenticated]_vars

\* a login with the token of a refresh_token has succeeded
C30_LoggedInWithRefreshedToken ==
    /\ result.tool = "login"
    /\ result.error = ""
    /\ Len(TokensFor(result.email)) >= 2
    /\ result.token = TokensFor(result.email)[Len(TokensFor(result.email))]
    /\ player_session.is_authenticated

(***************************************************************************)
(* Properties of create_character over an existing game (specification    *)
(* Spec)                                                                   *)
(***************************************************************************)
\* C34: when a hero already exists, a create_character call that does not
\* repeat a create_character call made just before it leaves the existing
\* GameState unchanged (it only warns and asks for confirmation).
C34_FirstCallOnlyWarns ==
    [][(/\ has_game
        /\ result.tool # "create_character"
        /\ result'.tool = "create_character")
       => UNCHANGED <<has_game, game>>]_vars

(***************************************************************************)
(* Properties of roll_dice (specification SpecDice)                        *)
(***************************************************************************)
\* C36: for every notation NdM+K or NdM-K with N >= 1 and M >= 1, roll_dice
\* returns N rolls, each in 1..M, and the total max(0, sum of rolls + K):
\* the total is never negative, and is at least N + K when K is positive.
C36_RollsAndTotal ==
    (result.tool = "roll_dice" /\ result.n >= 1 /\ result.m >= 1)
        => /\ ~result.raised
           /\ Len(result.rolls) = result.n
           /\ \A i \in 1..Len(result.rolls) : result.rolls[i] \in 1..result.m
           /\ result.total = Max(0, SumSeq(result.rolls) + result.k)
           /\ result.total >= 0
           /\ result.k > 0 => result.total >= result.n + result.k

\* a roll whose negative modifier outweighs the dice: the total is held at 0
C36_TotalHeldAtZero ==
    /\ result.tool = "roll_dice"
    /\ result.n >= 1
    /\ Len(result.rolls) = result.n
    /\ SumSeq(result.rolls) + result.k < 0
    /\ result.total = 0

(***************************************************************************)
(* Properties of calculate_damage (specification SpecDamage)               *)
(***************************************************************************)
\* D: int((dice total, or 1 if unarmed, + throughput // 5) x multiplier),
\* doubled on a critical hit
PreArmorDamage(r) ==
    LET dice == IF r.weapon = NoItem THEN 1 ELSE r.roll
        scaled == ((dice + r.throughput \div 5) * r.mult4) \div 4
    IN  IF r.is_crit THEN 2 * scaled ELSE scaled

\* C35: against a target with armor A calculate_damage returns
\* max(1, D - A) when armor is not ignored and D when it is ignored, where
\* D = int((weapon dice total, or 1 if unarmed, + throughput // 5)
\* x skill_multiplier), doubled on a critical hit.
C35_DamageFormula ==
    result.tool = "calculate_damage"
        => result.final_damage =
               IF result.ignore_armor THEN PreArmorDamage(result)
               ELSE IF PreArmorDamage(result) - result.armor >= 1
               THEN PreArmorDamage(result) - result.armor
               ELSE 1

\* the example: dice total 7, throughput 14, armor 2, multiplier 1.0 and no
\* critical hit give 7
C35_ExampleGivesSeven ==
    /\ result.tool = "calculate_damage"
    /\ result.weapon = TwoD6Weapon
    /\ result.roll = 7
    /\ result.throughput = 14
    /\ result.armor = 2
    /\ result.mult4 = 4
    /\ ~result.is_crit
    /\ ~result.ignore_armor
    /\ result.final_damage = 7

(***************************************************************************)
(* Properties of the turn order (specification SpecTurns)                  *)
(***************************************************************************)
\* C37: a new CombatState starts at current-turn index 0 and round 1 with a
\* turn order that is a permutation of the hero plus one slot per enemy;
\* after k next_turn calls on a turn order of length n >= 1 the index is in
\* 0..n-1 and equals k mod n, and round_num = 1 + k div n.
C37_TurnPointerWraps ==
    combat.present
        => LET n == Len(combat.turn_order)
               k == result.calls
           IN  /\ n = result.enemy_count + 1
               /\ Range(combat.turn_order)
                      = {"hero"} \cup {enemy_slots[i] : i \in 1..result.enemy_count}
               /\ k = 0 => /\ combat.current_turn_index = 0
                           /\ combat.round_num = 1
               /\ combat.current_turn_index \in 0..(n - 1)
               /\ combat.current_turn_index = k % n
               /\ combat.round_num = 1 + (k \div n)

\* the pointer has wrapped for the second time in a combat with enemies
C37_SecondWrap ==
    /\ combat.present
    /\ result.tool = "next_turn"
    /\ Len(combat.turn_order) >= 2
    /\ result.calls = 2 * Len(combat.turn_order)
    /\ combat.current_turn_index = 0
    /\ combat.round_num = 3

(***************************************************************************)
(* Properties of the descent (specification SpecDescent)                   *)
(***************************************************************************)
\* C38: the dungeon extends during play: the player who keeps moving comes
\* to an exit whose target has not been generated, move generates and links
\* a new level, and depth rises above its initial value of 1 with
\* max_depth_reached >= depth.
C38_DepthRises ==
    <>(/\ has_game
       /\ depth > 1
       /\ max_depth_reached >= depth)

\* every exit of the dungeon leads to a room that exists, and depth is 1
EveryExitIsGenerated ==
    /\ depth = 1
    /\ max_depth_reached = 1
    /\ \A id \in DOMAIN dungeon_map :
           \A d \in DOMAIN dungeon_map[id].exits :
               dungeon_map[id].exits[d] \in DOMAIN dungeon_map

(***************************************************************************)
(* Properties of the combat rewards (specification Spec)                   *)
(***************************************************************************)
\* the enemies of the dungeon that have been defeated
DefeatedEnemies ==
    { x \in UNION { {id} \X (1..Len(dungeon_map[id].enemies)) :
                      id \in DOMAIN dungeon_map } :
        dungeon_map[x[1]].enemies[x[2]].hp <= 0 }

RECURSIVE GoldOf(_)
GoldOf(defeated) ==
    IF defeated = {} THEN 0
    ELSE LET x == CHOOSE y \in defeated : TRUE
         IN  dungeon_map[x[1]].enemies[x[2]].gold_reward
                 + GoldOf(defeated \ {x})

\* C39: each enemy's reward is granted to the hero at most once: the gold
\* gained from combat never exceeds the sum of the gold_reward of the
\* distinct enemies defeated, also after a rest ambush added new enemies to
\* a room that was cleared before.
C39_RewardedAtMostOnce ==
    has_game => hero.gold <= GoldOf(DefeatedEnemies)

\* C40: when refresh_token returns an error (the email is not registered,
\* or the email with the new token could not be sent), the stored token of
\* every player is unchanged, so the token the player holds still logs in.
C40_FailedRefreshKeepsToken ==
    [][(/\ result'.tool = "refresh_token"
        /\ result'.error # "")
       => /\ DOMAIN players' = DOMAIN players
          /\ \A e \in DOMAIN players :
                 /\ players'[e].token = players[e].token
                 /\ validate_token(e, players[e].token)']_vars


(***************************************************************************)
(* Properties of concurrent registrations (specification                   *)
(* SpecRegistrations)                                                      *)
(***************************************************************************)
\* no two player records share an email, compared without case, or a
\* username
UniquePlayers ==
    \A e1, e2 \in DOMAIN players :
        (\/ LowerStr(e1) = LowerStr(e2)
         \/ players[e1].username = players[e2].username) => e1 = e2

RegistrationRejected ==
    /\ result.tool = "register_player"
    /\ result.error \in {"email_registered", "username_taken",
                         "registration_failed"}

\* C31: whatever way register_player calls interleave, no two player
\* records share an email (compared case-insensitively) or a username, and
\* a step that ends a registration as a duplicate leaves every player
\* record, tokens included, as it was.
C31_NoDuplicatePlayers ==
    [][/\ UniquePlayers'
       /\ RegistrationRejected' => players' = players]_vars

\* two registrations passed both reads, one was inserted, and the insert
\* of the other was rejected by the unique indexes
C31_InsertRejected ==
    /\ result.tool = "register_player"
    /\ result.error = "registration_failed"
    /\ Cardinality(DOMAIN players) >= 1


(***************************************************************************)
(* Properties of concurrent score updates (specification SpecScores)       *)
(***************************************************************************)
\* C32: whatever way finalize_run calls interleave, no step lowers the
\* best_run_score of a player, and when finalize_run(email, s) returns for
\* a registered player that player's best_run_score is at least s.
C32_BestRunScoreSerialized ==
    [][/\ \A e \in DOMAIN players :
              players'[e].best_run_score >= players[e].best_run_score
       /\ (/\ result'.tool = "finalize_run"
           /\ player_key(result'.email) \in DOMAIN players')
          => players'[player_key(result'.email)].best_run_score
                 >= result'.run_score]_vars


(***************************************************************************)
(* Properties of the sessions (specification SpecAccounts)                 *)
(***************************************************************************)
\* C33: the GameState of one player's session is never handed to another
\* player: when a player without a saved game logs in while the session
\* of another player is playing a game, the player who logged in has no
\* hero (no GameState) until create_character is called.
C33_SessionsOwnDisjointGames ==
    [][(/\ result'.tool = "login"
        /\ result'.error = ""
        /\ player_session.is_authenticated
        /\ player_key(player_session.email)
               # player_key(player_session'.email)
        /\ player_key(player_session'.email) \notin DOMAIN cloud_saves)
       => ~has_game']_vars

====
